---- MODULE Spec2Model ----
(***************************************************************************)
(* Model of the interview orchestration engine: the LangGraph state        *)
(* machine of core/graph.py (InterviewWorkflow), the four agents it calls  *)
(* (agents/coordinator.py, interviewer.py, observer.py,                    *)
(* feedback_generator.py) and the session log (core/logger.py).            *)
(*                                                                         *)
(* One session is modelled.  The InterviewState dict is the set of         *)
(* variables below; each graph node is one action; the reasoning service,  *)
(* the candidate's input and the knowledge base are the environment, drawn *)
(* with \E from small sets.                                                *)
(*                                                                         *)
(* Strings of the program that are written in Cyrillic are transliterated  *)
(* (the parser accepts ASCII only): "ru_stop" is the Russian stop word,    *)
(* "ne znayu" the Russian "don't know", and so on.                         *)
(*                                                                         *)
(* Scores are Python floats in the program.  Here a score s is the integer *)
(* s * ScoreScale, so that the smoothing update 0.7*old + 0.3*new is exact *)
(* for as many updates as a session can make.                              *)
(***************************************************************************)
EXTENDS Integers, Sequences, FiniteSets, TLC

(***************************************************************************)
(* Configuration and constants of the program                              *)
(***************************************************************************)

\* settings.MAX_TURNS: read from the environment (default "10").  The model
\* runs a configuration with a smaller maximum, above HighLevelTurns.
MAX_TURNS == 6

\* settings.DEFAULT_DIFFICULTY
DEFAULT_DIFFICULTY == 2

\* The "strong candidate" rule: questions_count >= 5 and technical_score > 7
HighLevelTurns == 5

HighLevelScore == 7

\* answer[:4000] is not modelled: no answer of the model is that long.
\* suggested_correction[:200]
CorrectionLimit == 200

\* _generate_roadmap: roadmap[:5]
RoadmapLimit == 5

\* Fixed-point scale of the scores: 7 decimal digits.
ScoreScale == 10 ^ 7

\* The environment deviates from the nominal run (a reasoning-service call
\* that fails, returns unusable text or repeats a question; an empty or
\* long answer; a change of topic) at most MaxEvents times in a session.
MaxEvents == 2

\* The number of evaluations folded into one Assessment when the Observer
\* is driven on its own (ObserverSpec).
MaxEvaluations == 5

\* The number of parts of a text of the reasoning service (ParserSpec).
MaxParts == 3

\* Questions of a session when two sessions run in one process
MaxSessionTurns == 2

None == "None"

VARIABLES
    process,                 \* the objects of the process when it runs two sessions
    candidate_info,          \* the CandidateInfo run() was given (its grade)
    pc,                      \* the graph node that runs next
    prev,                    \* the graph node that ran last
    current_topic,
    difficulty_level,
    assessment,
    questions_asked,
    messages,
    observer_recommendation,
    interview_complete,
    current_question,
    current_answer,
    coordinator_instruction,
    log_data,
    final_feedback,
    events,                  \* deviations of the environment so far
    coord_call,              \* the last call of decide_next_step: input and result
    raised_from,             \* the agent an exception last came out of
    stop_snapshot,           \* line read, assessment and turns when the session was stopped
    observer_call,           \* the last run of analyze_answer: the Observer's input and result
    llm_call,                \* the last request to the reasoning service: agent and client
    disk                     \* the log files written so far

vars == <<process, candidate_info, pc, prev, current_topic, difficulty_level, assessment, questions_asked,
          messages, observer_recommendation, interview_complete, current_question,
          current_answer, coordinator_instruction, log_data, final_feedback,
          events, coord_call, raised_from, stop_snapshot, observer_call,
          llm_call, disk>>

(***************************************************************************)
(* Helpers                                                                 *)
(***************************************************************************)

Min(a, b) == IF a < b THEN a ELSE b

\* Only None counts as missing, the empty string does not
Falsy_none_only(s) == s = None

\* Python truthiness of an Optional[str]: None and "" are falsy.
Falsy(s) == s \in {None, ""}

\* A text whose content is not inspected, only its length: [:n] and truthiness.
Text(id, n) == [text |-> id, len |-> n]

NoText == Text("", 0)

\* The text not cut
Slice_whole(t, n) == t

\* text[:n]
Slice(t, n) == [t EXCEPT !.len = Min(t.len, n)]

IsPrefix(s, t) == Len(s) <= Len(t) /\ SubSeq(t, 1, Len(s)) = s

Contains(seq, x) == \E i \in 1..Len(seq) : seq[i] = x

NoDuplicates(seq) == \A i, j \in 1..Len(seq) : i # j => seq[i] # seq[j]

(***************************************************************************)
(* core/state.py                                                           *)
(***************************************************************************)

\* The process runs one session.
NoProcess == [started |-> FALSE]

\* The CandidateInfo of the session: of its fields the model keeps the
\* declared grade.
CandidateInfo == [grade |-> "Middle"]

\* An Assessment that starts in the middle of the scale
Assessment_midscale ==
    [technical_score |-> 5 * ScoreScale,
     communication_score |-> 5 * ScoreScale,
     confidence_score |-> 5 * ScoreScale,
     topics_covered |-> <<>>,
     confirmed_skills |-> <<>>,
     knowledge_gaps |-> <<>>,
     soft_skills_notes |-> <<>>]

\* Assessment(): the pydantic defaults
Assessment ==
    [technical_score |-> 0,
     communication_score |-> 0,
     confidence_score |-> 0,
     topics_covered |-> <<>>,
     confirmed_skills |-> <<>>,
     knowledge_gaps |-> <<>>,
     soft_skills_notes |-> <<>>]

Message(role, content) == [role |-> role, content |-> content]

(***************************************************************************)
(* core/logger.py                                                          *)
(***************************************************************************)

init_log_data == [turns |-> <<>>, final_feedback |-> ""]

\* add_turn with the turn numbered from 0
add_turn_from_zero(log, agent_visible_message, user_message) ==
    [log EXCEPT !.turns =
        Append(@, [turn_id |-> Len(log.turns),
                   agent_visible_message |-> agent_visible_message,
                   user_message |-> user_message])]

\* add_turn with its two texts exchanged
add_turn_texts_exchanged(log, agent_visible_message, user_message) ==
    [log EXCEPT !.turns =
        Append(@, [turn_id |-> Len(log.turns) + 1,
                   agent_visible_message |-> user_message,
                   user_message |-> agent_visible_message])]

\* add_turn that writes the turn twice
add_turn_twice(log, agent_visible_message, user_message) ==
    LET turn(n) == [turn_id |-> n,
                    agent_visible_message |-> agent_visible_message,
                    user_message |-> user_message]
    IN  [log EXCEPT !.turns = @ \o <<turn(Len(log.turns) + 1),
                                      turn(Len(log.turns) + 2)>>]

add_turn(log, agent_visible_message, user_message) ==
    [log EXCEPT !.turns =
        Append(@, [turn_id |-> Len(log.turns) + 1,
                   agent_visible_message |-> agent_visible_message,
                   user_message |-> user_message])]

\* save_final_feedback that builds the log anew and loses the turns
save_final_feedback_new_log(log, feedback) ==
    [turns |-> <<>>, final_feedback |-> feedback.full_text_feedback]

save_final_feedback(log, feedback) ==
    [log EXCEPT !.final_feedback = feedback.full_text_feedback]

\* No file of that name has been written.
NoFile == [written |-> FALSE]

\* save_to_file(log_data, candidate_name, filename): the output_data that
\* json.dump writes (participant_name is the same in every file).
save_to_file(log) ==
    [written |-> TRUE, turns |-> log.turns, final_feedback |-> log.final_feedback]

(***************************************************************************)
(* agents/coordinator.py                                                   *)
(***************************************************************************)

\* CoordinatorAgent.__init__: the keyword arguments its ChatMistralAI client
\* is built with (temperature in tenths).  A key that is absent was not
\* passed: that setting is then the client library's default.
CoordinatorClient == [temperature |-> 3]

CoordinatorActions == {"continue", "change_topic", "end_interview"}

DefaultInstruction == "Zadai sleduyushchii vopros"

\* What the reasoning service can answer to the Coordinator's request:
\* a JSON object (its action may be outside the three legal ones, its
\* new_topic and new_difficulty are free), text that is not JSON, or a
\* failed call.
CoordinatorResponses ==
    {[kind |-> "json", action |-> "continue", new_topic |-> "", new_difficulty |-> 2],
     [kind |-> "json", action |-> "end_interview", new_topic |-> "", new_difficulty |-> 2],
     [kind |-> "json", action |-> "change_topic", new_topic |-> "Python", new_difficulty |-> 3],
     [kind |-> "json", action |-> "skip", new_topic |-> "", new_difficulty |-> 2],
     [kind |-> "unparsable"],
     [kind |-> "error"]}

\* The nominal answer is "continue"; "end_interview" ends the session and
\* is not counted either.
CoordinatorCost(resp) ==
    IF resp.kind = "json" /\ resp.action \in {"continue", "end_interview"} THEN 0 ELSE 1

\* state.get("assessment", {}).get("technical_score", 0): the assessment
\* of the state is a pydantic Assessment, which has no method get, so the
\* expression raises AttributeError whenever it is evaluated.
AssessmentGetRaises == TRUE

\* No decision: the call raised.
NoDecision == [action |-> None]

\* _create_fallback_decision(state).  The second condition is evaluated
\* only when the first is false and questions_count >= 5.
\* Result: raised, or the decision.
create_fallback_decision(questions_count, topic, difficulty) ==
    LET decision(action) ==
            [raised |-> FALSE,
             decision |-> [action |-> action,
                           new_topic |-> topic,
                           new_difficulty |-> difficulty,
                           instruction_to_interviewer |-> DefaultInstruction]]
    IN  IF questions_count >= MAX_TURNS
            THEN decision("end_interview")
        ELSE IF questions_count >= HighLevelTurns
            THEN IF AssessmentGetRaises
                    THEN [raised |-> TRUE, decision |-> NoDecision]
                    ELSE decision("continue")
        ELSE decision("continue")

\* decide_next_step(state) without the test of decision.get("action"): the
\* parsed action is returned as it came.
decide_next_step_action_as_parsed(resp, questions_count, topic, difficulty) ==
    IF resp.kind = "json"
        THEN [raised |-> FALSE,
              decision |->
                [action |-> resp.action,
                 new_topic |-> resp.new_topic,
                 new_difficulty |-> resp.new_difficulty,
                 instruction_to_interviewer |-> DefaultInstruction]]
        ELSE create_fallback_decision(questions_count, topic, difficulty)

\* decide_next_step(state) for one answer of the reasoning service.
\* json.loads fails, or llm.invoke raises: the except clauses call the
\* fallback, and what the fallback raises leaves decide_next_step.
decide_next_step(resp, questions_count, topic, difficulty) ==
    IF resp.kind = "json"
        THEN [raised |-> FALSE,
              decision |->
                [action |-> IF resp.action \in CoordinatorActions
                               THEN resp.action ELSE "continue",
                 new_topic |-> resp.new_topic,
                 new_difficulty |-> resp.new_difficulty,
                 instruction_to_interviewer |-> DefaultInstruction]]
        ELSE create_fallback_decision(questions_count, topic, difficulty)

\* should_end_interview(state) without the test of interview_complete
should_end_interview_ignores_flag(complete, questions_count, a) ==
    \/ questions_count >= MAX_TURNS
    \/ (questions_count >= HighLevelTurns
        /\ a.technical_score > HighLevelScore * ScoreScale)

\* should_end_interview(state)
should_end_interview(complete, questions_count, a) ==
    \/ complete
    \/ questions_count >= MAX_TURNS
    \/ (questions_count >= HighLevelTurns
        /\ a.technical_score > HighLevelScore * ScoreScale)

(***************************************************************************)
(* agents/interviewer.py                                                   *)
(***************************************************************************)

\* InterviewerAgent.__init__: the keyword arguments of its client
InterviewerClient == [temperature |-> 7]

\* The text of a question the reasoning service has not produced before:
\* the n-th question of a session is "Qn", returned without a final '?'.
QNames == <<"Q1", "Q2", "Q3", "Q4", "Q5", "Q6", "Q7", "Q8", "Q9", "Q10">>

\* What the reasoning service can answer to a request for a question:
\* a new question, a question that was asked before, empty text, or a
\* failed call.
InterviewerResponses == {"fresh", "repeat", "empty", "error"}

InterviewerCost(resp) == IF resp = "fresh" THEN 0 ELSE 1

\* response.content.strip()
InterviewerText(resp, asked) ==
    CASE resp = "fresh" -> QNames[Len(asked) + 1]
      [] resp = "repeat" -> asked[Len(asked)]
      [] OTHER -> ""

\* question.endswith('?'): the questions that end in '?' are those built
\* by EnsureQuestionMark and those of the fallback bank and template.
RawTexts == {QNames[i] : i \in 1..Len(QNames)} \cup {""}

EndsWithQuestionMark(q) == q \notin RawTexts

\* if not question.endswith('?'): question = question + '?'
EnsureQuestionMark(q) == IF EndsWithQuestionMark(q) THEN q ELSE q \o "?"

\* The fallback bank of _get_fallback_question, keyed by a substring of
\* the lower-cased topic.
FallbackBank(topic) ==
    CASE topic = "Python" ->
            <<"Rasskazhite o svoem opyte raboty s Python?",
              "Kakoi proekt na Python vy schitaete samym slozhnym i pochemu?",
              "S kakimi Python bibliotekami vy rabotali?",
              "Kak vy otlazhivaete Python kod?",
              "Rasskazhite o patternakh proektirovaniya v Python?">>
      [] OTHER -> <<>>

\* f"Rasskazhite o svoem opyte raboty s {topic}?"
GenericQuestion(topic) == ("Rasskazhite o svoem opyte raboty s " \o topic) \o "?"

\* _get_fallback_question(topic, difficulty, asked_questions): the first
\* question of the topic's bank that was not asked, else the template,
\* which is returned without a look at asked_questions.
get_fallback_question(topic, asked) ==
    LET bank == FallbackBank(topic)
        free == {i \in 1..Len(bank) : ~Contains(asked, bank[i])}
    IN  IF free # {}
            THEN bank[CHOOSE i \in free : \A j \in free : i <= j]
            ELSE GenericQuestion(topic)

\* _generate_alternative_question(topic, difficulty, asked_questions):
\* a second request; its text is returned as it is when it is non-empty
\* and was not asked, else the fallback.
generate_alternative_question(alt, topic, asked) ==
    LET question == InterviewerText(alt, asked)
    IN  IF alt # "error" /\ question # "" /\ ~Contains(asked, question)
            THEN question
            ELSE get_fallback_question(topic, asked)

\* InterviewerAgent.generate_question(state), for the answer resp to the
\* first request and alt to the second, when there is one.
interviewer_generate_question(resp, alt, topic, asked) ==
    IF resp = "error"
        THEN get_fallback_question(topic, asked)
        ELSE LET question == EnsureQuestionMark(InterviewerText(resp, asked))
             IN  IF Contains(asked, question)
                     THEN generate_alternative_question(alt, topic, asked)
                     ELSE question

\* Whether generate_question makes the second request.
NeedsAlternative(resp, asked) ==
    /\ resp # "error"
    /\ Contains(asked, EnsureQuestionMark(InterviewerText(resp, asked)))

(***************************************************************************)
(* core/rag.py                                                             *)
(***************************************************************************)

\* KnowledgeBase.verify_technical_answer: the first statement of its try
\* block reads self.documents, an attribute the class never sets, so every
\* call ends in its except clause and returns this record.  Confidence is
\* in hundredths.
verify_technical_answer ==
    [confidence |-> 30,
     correct_info |-> Text("Oshibka pri proverke: 'KnowledgeBase' object has no attribute 'documents'", 72)]

(***************************************************************************)
(* agents/observer.py                                                      *)
(***************************************************************************)

\* ObserverAgent.__init__: the keyword arguments of its client (timeout in
\* seconds)
ObserverClient == [temperature |-> 2, timeout |-> 30, max_retries |-> 3]

\* The answers a candidate gives in the model, with answer.split() counted.
LongAnswer == "Spiski izmenyaemy, kortezhi net; spisok - [], kortezh - ()"

WordCount(answer) ==
    CASE answer = LongAnswer -> 9
      [] answer = "ne znayu" -> 2
      [] OTHER -> 1

\* answer.lower().strip()
Lower(s) ==
    CASE s = "STOP" -> "stop"
      [] s = "Ne znayu" -> "ne znayu"
      [] OTHER -> s

ShortResponses == {"nichem", "ne znayu", "ne pomnyu", "net", "ne", "no", "don't know"}

\* What the reasoning service can answer to the Observer's request: a
\* complete evaluation record, a record without communication_score,
\* empty text, text with a brace pair that is not JSON, or a failed call.
ObserverResponses == {"valid", "incomplete", "empty", "badjson", "error"}

ObserverCost(resp) == IF resp = "valid" THEN 0 ELSE 1

\* The evaluation record the reasoning service returns in the model.
ValidAnalysis ==
    [technical_score |-> 9,
     completeness_score |-> 8,
     confidence_score |-> 8,
     communication_score |-> 8,
     has_errors |-> FALSE,
     is_evasive |-> FALSE,
     depth_of_knowledge |-> "adequate",
     recommendation_for_next_question |-> "uglubit temu",
     suggested_correction |-> NoText]

IncompleteAnalysis ==
    [technical_score |-> 9,
     confidence_score |-> 8,
     has_errors |-> FALSE,
     is_evasive |-> FALSE,
     depth_of_knowledge |-> "adequate"]

\* The record _clean_json_response substitutes for empty text and for
\* text without a brace pair.
DefaultAnalysis ==
    [technical_score |-> 5,
     completeness_score |-> 5,
     confidence_score |-> 5,
     communication_score |-> 5,
     has_errors |-> FALSE,
     is_evasive |-> FALSE,
     depth_of_knowledge |-> "adequate",
     recommendation_for_next_question |-> "Prodolzhit temu",
     suggested_correction |-> NoText]

\* Evaluation records of the reasoning service with scores at the ends of
\* the scale, and one with scores outside it.
ZeroAnalysis ==
    [ValidAnalysis EXCEPT !.technical_score = 0,
                          !.communication_score = 0,
                          !.confidence_score = 0]

TenAnalysis ==
    [ValidAnalysis EXCEPT !.technical_score = 10,
                          !.communication_score = 10,
                          !.confidence_score = 10]

OutOfRangeAnalysis ==
    [ValidAnalysis EXCEPT !.technical_score = 15,
                          !.communication_score = -5,
                          !.confidence_score = 11]

\* An evaluation that gives 8 for the technical score, finds no error but
\* sends a correction all the same, and calls the knowledge deep.
EightAnalysis ==
    [ValidAnalysis EXCEPT !.technical_score = 8,
                          !.depth_of_knowledge = "deep",
                          !.suggested_correction = Text("utochnenie", 10)]

\* An evaluation that finds errors and sends no correction, and calls the
\* answer evasive and the knowledge deep.
DeepAnalysis ==
    [ValidAnalysis EXCEPT !.technical_score = 6,
                          !.has_errors = TRUE,
                          !.is_evasive = TRUE,
                          !.depth_of_knowledge = "deep"]

\* The answers of the reasoning service when the Observer is driven on its
\* own: those of a session, and the records above.
EvaluationResponses ==
    {"valid", "incomplete", "empty", "error", "zero", "ten", "out_of_range",
     "eight", "deep"}

\* _fallback_analysis with the short answers not recognised
fallback_analysis_by_length(answer, verification) ==
    LET answer_length == WordCount(answer)
        score == IF answer_length < 15 THEN 3 ELSE IF answer_length > 100 THEN 7 ELSE 5
        confidence == IF answer_length < 15 THEN 3 ELSE IF answer_length > 100 THEN 8 ELSE 5
    IN  [technical_score |-> score,
         completeness_score |-> score,
         confidence_score |-> confidence,
         communication_score |-> 5,
         has_errors |-> verification.confidence < 40,
         is_evasive |-> answer_length < 15,
         depth_of_knowledge |-> IF score > 6 THEN "adequate" ELSE "shallow",
         recommendation_for_next_question |->
             IF score > 5 THEN "Prodolzhit temu" ELSE "Uprostit vopros",
         suggested_correction |-> verification.correct_info]

\* _fallback_analysis(answer, verification)
fallback_analysis(answer, verification) ==
    LET answer_length == WordCount(answer)
        score == IF answer_length < 15 THEN 3 ELSE IF answer_length > 100 THEN 7 ELSE 5
        confidence == IF answer_length < 15 THEN 3 ELSE IF answer_length > 100 THEN 8 ELSE 5
    IN  IF Lower(answer) \in ShortResponses \/ answer_length <= 2
            THEN [technical_score |-> 1,
                  completeness_score |-> 1,
                  confidence_score |-> 2,
                  communication_score |-> 3,
                  has_errors |-> TRUE,
                  is_evasive |-> TRUE,
                  depth_of_knowledge |-> "shallow",
                  recommendation_for_next_question |-> "Zadat bolee prostoi vopros",
                  suggested_correction |-> Text("Spiski izmenyaemy (mutable), ...", 259)]
            ELSE [technical_score |-> score,
                  completeness_score |-> score,
                  confidence_score |-> confidence,
                  communication_score |-> 5,
                  has_errors |-> verification.confidence < 40,
                  is_evasive |-> answer_length < 15,
                  depth_of_knowledge |-> IF score > 6 THEN "adequate" ELSE "shallow",
                  recommendation_for_next_question |->
                      IF score > 5 THEN "Prodolzhit temu" ELSE "Uprostit vopros",
                  suggested_correction |-> verification.correct_info]

\* The analysis analyze_answer works with, for one answer of the service.
ObserverAnalysis(resp, answer, verification) ==
    CASE resp = "valid" -> ValidAnalysis
      [] resp = "incomplete" -> IncompleteAnalysis
      [] resp = "empty" -> DefaultAnalysis
      [] resp = "zero" -> ZeroAnalysis
      [] resp = "ten" -> TenAnalysis
      [] resp = "out_of_range" -> OutOfRangeAnalysis
      [] resp = "eight" -> EightAnalysis
      [] resp = "deep" -> DeepAnalysis
      [] OTHER -> fallback_analysis(answer, verification)

\* The running score with the two weights exchanged
Smooth_weights_exchanged(old, new) == (3 * old + 7 * new * ScoreScale) \div 10

\* The running score without the decay of the old value
Smooth_no_decay(old, new) == old + (3 * new * ScoreScale) \div 10

\* old * 0.7 + new * 0.3
Smooth(old, new) == (7 * old + 3 * new * ScoreScale) \div 10

KnowledgeGapKey == "tekushchaya tema"

\* _update_assessment that files a correction under a key of its own when
\* the map already holds one
update_assessment_key_per_error(a, analysis) ==
    LET has(k) == k \in DOMAIN analysis
        a1 == [a EXCEPT !.technical_score = Smooth(@, analysis.technical_score)]
        a2 == [a1 EXCEPT !.communication_score = Smooth(@, analysis.communication_score)]
        a3 == [a2 EXCEPT !.confidence_score = Smooth(@, analysis.confidence_score)]
        correction == IF has("suggested_correction")
                          THEN analysis.suggested_correction ELSE NoText
        topic == IF DOMAIN a.knowledge_gaps = {}
                    THEN KnowledgeGapKey ELSE "sleduyushchaya tema"
        a4 == IF analysis.has_errors /\ correction.len > 0
                  THEN [a3 EXCEPT !.knowledge_gaps =
                          [k \in DOMAIN @ \cup {topic} |->
                              IF k = topic
                                  THEN Slice(correction, CorrectionLimit)
                                  ELSE @[k]]]
                  ELSE a3
        a5 == IF analysis.is_evasive
                  THEN [a4 EXCEPT !.soft_skills_notes =
                          Append(@, "Kandidat byl uklonchiv v otvete")]
                  ELSE a4
        a6 == IF analysis.depth_of_knowledge = "deep"
                  THEN [a5 EXCEPT !.soft_skills_notes =
                          Append(@, "Pokazal glubokoe ponimanie temy")]
                  ELSE a5
    IN  IF ~has("technical_score") THEN [raised |-> TRUE, assessment |-> a]
        ELSE IF ~has("communication_score") THEN [raised |-> TRUE, assessment |-> a1]
        ELSE IF ~has("confidence_score") THEN [raised |-> TRUE, assessment |-> a2]
        ELSE [raised |-> FALSE, assessment |-> a6]

\* _update_assessment(assessment, analysis, verification).  The Assessment
\* object is changed in place, field by field, so when a key of the
\* analysis is missing the fields assigned before the KeyError keep their
\* new values.  Result: raised, and the assessment as it is left.
update_assessment(a, analysis) ==
    LET has(k) == k \in DOMAIN analysis
        a1 == [a EXCEPT !.technical_score = Smooth(@, analysis.technical_score)]
        a2 == [a1 EXCEPT !.communication_score = Smooth(@, analysis.communication_score)]
        a3 == [a2 EXCEPT !.confidence_score = Smooth(@, analysis.confidence_score)]
        correction == IF has("suggested_correction")
                          THEN analysis.suggested_correction ELSE NoText
        a4 == IF analysis.has_errors /\ correction.len > 0
                  THEN [a3 EXCEPT !.knowledge_gaps =
                          [k \in DOMAIN @ \cup {KnowledgeGapKey} |->
                              IF k = KnowledgeGapKey
                                  THEN Slice(correction, CorrectionLimit)
                                  ELSE @[k]]]
                  ELSE a3
        a5 == IF analysis.is_evasive
                  THEN [a4 EXCEPT !.soft_skills_notes =
                          Append(@, "Kandidat byl uklonchiv v otvete")]
                  ELSE a4
        a6 == IF analysis.depth_of_knowledge = "deep"
                  THEN [a5 EXCEPT !.soft_skills_notes =
                          Append(@, "Pokazal glubokoe ponimanie temy")]
                  ELSE a5
    IN  IF ~has("technical_score") THEN [raised |-> TRUE, assessment |-> a]
        ELSE IF ~has("communication_score") THEN [raised |-> TRUE, assessment |-> a1]
        ELSE IF ~has("confidence_score") THEN [raised |-> TRUE, assessment |-> a2]
        ELSE [raised |-> FALSE, assessment |-> a6]

\* ObserverAgent.analyze_answer(state, question, answer), called with a
\* non-empty question and answer.  Result: raised, the analysis and the
\* assessment as the call leaves it.
observer_analyze_answer(resp, a, answer) ==
    LET verification == verify_technical_answer
        analysis == ObserverAnalysis(resp, answer, verification)
        updated == update_assessment(a, analysis)
    IN  [raised |-> updated.raised,
         verification |-> verification,
         analysis |-> analysis,
         assessment |-> updated.assessment]

\* The three scores of an evaluation record that the aggregator reads lie
\* in [0, 10].
ScoresInScale(analysis) ==
    \A k \in DOMAIN analysis \cap
            {"technical_score", "communication_score", "confidence_score"} :
        analysis[k] \in 0..10

\* The Observer has not been called.
NoObserverCall == [called |-> FALSE, n |-> 0, in_range |-> TRUE]

\* The record of one call of ObserverAgent.analyze_answer: the answer of
\* the reasoning service, the candidate's answer, the Assessment and the
\* log's turns before the call, and the result r of the call; n counts the
\* calls, in_range tells that every evaluation so far had its scores in
\* [0, 10].
ObserverCall(last, resp, answer, a, turns, r) ==
    [called |-> TRUE,
     n |-> last.n + 1,
     in_range |-> last.in_range /\ ScoresInScale(r.analysis),
     response |-> resp,
     answer |-> answer,
     before |-> a,
     turns_before |-> turns,
     verification |-> r.verification,
     analysis |-> r.analysis,
     raised |-> r.raised]

(***************************************************************************)
(* agents/feedback_generator.py                                            *)
(***************************************************************************)

\* FeedbackGenerator.__init__: the keyword arguments of its client
ReporterClient == [temperature |-> 4]

ReporterResponses == {"ok", "error"}

\* candidate.grade.lower()
GradeLower(grade) ==
    CASE grade \in {"Junior", "junior"} -> "junior"
      [] grade \in {"Middle", "middle"} -> "middle"
      [] grade \in {"Senior", "senior"} -> "senior"
      [] OTHER -> grade

\* _determine_level(assessment, candidate); "Pod voprosom" is the
\* program's "under review".
determine_level(a, candidate) ==
    LET tech_score == a.technical_score
    IN  IF GradeLower(candidate.grade) = "junior"
            THEN IF tech_score >= 7 * ScoreScale THEN "Middle-ready Junior" ELSE "Junior"
        ELSE IF GradeLower(candidate.grade) = "middle"
            THEN IF tech_score >= 8 * ScoreScale THEN "Senior-ready Middle"
                 ELSE IF tech_score >= 6 * ScoreScale THEN "Middle"
                 ELSE "Junior+"
        ELSE IF tech_score >= 9 * ScoreScale THEN "Senior"
             ELSE IF tech_score >= 7 * ScoreScale THEN "Middle+"
             ELSE "Pod voprosom"

\* _determine_hiring_recommendation looking at the technical score only
determine_hiring_recommendation_tech_only(a, candidate) ==
    LET tech_score == a.technical_score
    IN  IF tech_score >= 8 * ScoreScale THEN "Strong Hire"
        ELSE IF tech_score >= 6 * ScoreScale THEN "Hire"
        ELSE IF tech_score >= 4 * ScoreScale THEN "Hire with reservations"
        ELSE "No Hire"

\* _determine_hiring_recommendation(assessment, candidate)
determine_hiring_recommendation(a, candidate) ==
    LET tech_score == a.technical_score
        comm_score == a.communication_score
    IN  IF tech_score >= 8 * ScoreScale /\ comm_score >= 7 * ScoreScale
            THEN "Strong Hire"
        ELSE IF tech_score >= 6 * ScoreScale /\ comm_score >= 5 * ScoreScale
            THEN "Hire"
        ELSE IF tech_score >= 4 * ScoreScale
            THEN "Hire with reservations"
        ELSE "No Hire"

\* The roadmap items _generate_roadmap writes for the knowledge gaps, one
\* for each key of the map
RECURSIVE GapItems(_, _)
GapItems(gaps, keys) ==
    IF keys = {} THEN <<>>
    ELSE LET topic == CHOOSE k \in keys : TRUE
         IN  <<[item |-> "Izuchit", topic |-> topic]>>
                 \o GapItems(gaps, keys \ {topic})

GeneralItem(text) == [item |-> text, topic |-> ""]

\* _generate_roadmap(assessment, candidate): roadmap[:RoadmapLimit]
generate_roadmap(a, candidate) ==
    LET roadmap ==
            GapItems(a.knowledge_gaps, DOMAIN a.knowledge_gaps)
            \o (IF a.technical_score < 6 * ScoreScale
                    THEN <<GeneralItem("Uglubit ponimanie osnovnykh kontseptsii")>>
                    ELSE <<>>)
            \o (IF a.communication_score < 5 * ScoreScale
                    THEN <<GeneralItem("Potrenirovatsya v obyasnenii")>>
                    ELSE <<>>)
            \o (IF candidate.grade = "Junior" /\ a.technical_score > 7 * ScoreScale
                    THEN <<GeneralItem("Nachat izuchenie prodvinutykh tem")>>
                    ELSE <<>>)
            \o (IF candidate.grade = "Middle" /\ a.technical_score > 8 * ScoreScale
                    THEN <<GeneralItem("Izuchit arkhitekturnye patterny")>>
                    ELSE <<>>)
    IN  SubSeq(roadmap, 1, Min(Len(roadmap), RoadmapLimit))

\* generate_feedback whose except clause returns the computed verdict and
\* roadmap
reporter_generate_feedback_computed_fallback(resp, a, candidate) ==
    [kind |-> IF resp = "ok" THEN "llm" ELSE "fallback",
     verdict |-> [grade |-> determine_level(a, candidate),
                  hiring_recommendation |->
                      determine_hiring_recommendation(a, candidate)],
     roadmap |-> generate_roadmap(a, candidate),
     full_text_feedback |->
        IF resp = "ok" THEN "feedback text"
        ELSE "Izvinite, ne udalos sgenerirovat podrobnyi fidbek."]

\* FeedbackGenerator.generate_feedback(state, duration_minutes): the
\* verdict and the roadmap computed from the state with the text of the
\* reasoning service, or the fallback feedback of
\* _generate_fallback_feedback.
reporter_generate_feedback(resp, a, candidate) ==
    IF resp = "ok"
        THEN [kind |-> "llm",
              verdict |-> [grade |-> determine_level(a, candidate),
                           hiring_recommendation |->
                               determine_hiring_recommendation(a, candidate)],
              roadmap |-> generate_roadmap(a, candidate),
              full_text_feedback |-> "feedback text"]
        ELSE [kind |-> "fallback",
              verdict |-> [grade |-> "Ne opredelen",
                           hiring_recommendation |-> "Trebuetsya ruchnaya proverka"],
              roadmap |-> <<GeneralItem("Proiti povtornoe intervyu posle podgotovki")>>,
              full_text_feedback |-> "Izvinite, ne udalos sgenerirovat podrobnyi fidbek."]

(***************************************************************************)
(* core/graph.py: InterviewWorkflow                                        *)
(***************************************************************************)

Nodes == {"start_interview", "coordinator_decision", "generate_question",
          "get_user_answer", "analyze_answer", "generate_feedback", "end_interview"}

\* END of the graph, and the except clause of run() that ends a session
\* whose node raised.
END == "END"

Aborted == "aborted"

StopKeywords == {"ru_stop", "stop", "ru_zavershit", "ru_konec", "exit", "quit"}

\* user_input.lower() in [...]
IsStopKeyword(user_input) == Lower(user_input) \in StopKeywords

\* What input() can deliver, stripped; EOF stands for EOFError.
EOF == "<EOF>"

UserInputs == {"ne znayu", "", LongAnswer, "STOP", EOF}

InputCost(line) == IF line \in {"", LongAnswer} THEN 1 ELSE 0

\* check_should_continue with the edge key of the termination flag wrong
check_should_continue_wrong_key(complete, questions_count) ==
    IF complete THEN "continue"
    ELSE IF questions_count >= MAX_TURNS THEN "end"
    ELSE "continue"

\* check_should_continue(state): the conditional edge after
\* coordinator_decision
check_should_continue(complete, questions_count) ==
    IF complete THEN "end"
    ELSE IF questions_count >= MAX_TURNS THEN "end"
    ELSE "continue"

\* The edge map of add_conditional_edges
Route(key) == IF key = "continue" THEN "generate_question" ELSE "generate_feedback"

NoCall == [called |-> FALSE]

NoSnapshot == [taken |-> FALSE]

\* A request to the reasoning service: the agent and the client it uses
LLMCall(agent, client) == [called |-> TRUE, agent |-> agent, client |-> client]

\* A write of the log file that fails is a deviation of the environment.
SaveCost(saved) == IF saved THEN 0 ELSE 1

\* The log directory before a session writes to it
NoFiles == [interview_log |-> NoFile, interview_interrupted |-> NoFile]

\* run() ended in its except KeyboardInterrupt clause
Interrupted == "interrupted"

\* The state's final_feedback key before generate_feedback sets it
NoFeedback == [kind |-> "none", full_text_feedback |-> ""]

\* run(): the initial state handed to app.invoke
Init ==
    /\ process = NoProcess
    /\ candidate_info = CandidateInfo
    /\ pc = "start_interview"
    /\ prev = None
    /\ current_topic = ""
    /\ difficulty_level = DEFAULT_DIFFICULTY
    /\ assessment = Assessment
    /\ questions_asked = <<>>
    /\ messages = <<>>
    /\ observer_recommendation = None
    /\ interview_complete = FALSE
    /\ current_question = None
    /\ current_answer = None
    /\ coordinator_instruction = None
    /\ log_data = init_log_data
    /\ final_feedback = NoFeedback
    /\ events = 0
    /\ coord_call = NoCall
    /\ raised_from = None
    /\ stop_snapshot = NoSnapshot
    /\ observer_call = NoObserverCall
    /\ llm_call = NoCall
    /\ disk = NoFiles

\* start_interview(state): every key is present in the state run() builds,
\* so only the unconditional assignments change it.
start_interview ==
    /\ pc = "start_interview"
    /\ UNCHANGED <<process, candidate_info>>
    /\ interview_complete' = FALSE
    /\ current_question' = None
    /\ current_answer' = None
    /\ coordinator_instruction' = None
    /\ pc' = "coordinator_decision"
    /\ prev' = "start_interview"
    /\ UNCHANGED <<current_topic, difficulty_level, assessment, questions_asked,
                   messages, observer_recommendation, log_data, final_feedback,
                   events, coord_call, raised_from, stop_snapshot, observer_call,
                   llm_call, disk>>

\* coordinator_decision(state), then the conditional edge.  An exception
\* that leaves decide_next_step leaves the node and app.invoke, and run()
\* catches it: the session is over.
coordinator_decision ==
    /\ pc = "coordinator_decision"
    /\ UNCHANGED <<process, candidate_info>>
    /\ prev' = "coordinator_decision"
    /\ UNCHANGED <<difficulty_level, assessment, questions_asked, messages,
                   observer_recommendation, current_question, current_answer,
                   log_data, final_feedback, stop_snapshot, observer_call, disk>>
    /\ IF should_end_interview(interview_complete, Len(questions_asked), assessment)
          THEN /\ interview_complete' = TRUE
               /\ coord_call' = NoCall
               /\ pc' = Route(check_should_continue(TRUE, Len(questions_asked)))
               /\ UNCHANGED <<current_topic, coordinator_instruction, events, raised_from,
                              llm_call>>
          ELSE \E resp \in CoordinatorResponses :
               /\ events + CoordinatorCost(resp) <= MaxEvents
               /\ events' = events + CoordinatorCost(resp)
               /\ llm_call' = LLMCall("Coordinator", CoordinatorClient)
               /\ LET r == decide_next_step(resp, Len(questions_asked),
                                            current_topic, difficulty_level)
                  IN  /\ coord_call' = [called |-> TRUE,
                                        response |-> resp.kind,
                                        questions_count |-> Len(questions_asked),
                                        technical_score |-> assessment.technical_score,
                                        topic |-> current_topic,
                                        difficulty |-> difficulty_level,
                                        raised |-> r.raised,
                                        decision |-> r.decision]
                      /\ IF r.raised
                            THEN /\ raised_from' = "Coordinator"
                                 /\ pc' = Aborted
                                 /\ UNCHANGED <<current_topic, coordinator_instruction,
                                                interview_complete>>
                            ELSE /\ raised_from' = raised_from
                                 /\ coordinator_instruction' =
                                        r.decision.instruction_to_interviewer
                                 /\ current_topic' =
                                        IF r.decision.action = "change_topic"
                                           /\ r.decision.new_topic # ""
                                            THEN r.decision.new_topic
                                            ELSE current_topic
                                 /\ interview_complete' =
                                        (r.decision.action = "end_interview")
                                 /\ pc' = Route(check_should_continue(
                                                   interview_complete',
                                                   Len(questions_asked)))

\* generate_question that leaves the answer of the turn before in place
generate_question_keeps_answer ==
    /\ pc = "generate_question"
    /\ UNCHANGED <<process, candidate_info>>
    /\ \E resp, alt \in InterviewerResponses :
        /\ resp = "repeat" => questions_asked # <<>>
        /\ IF NeedsAlternative(resp, questions_asked)
              THEN /\ alt = "repeat" => questions_asked # <<>>
                   /\ events + InterviewerCost(resp) + InterviewerCost(alt) <= MaxEvents
                   /\ events' = events + InterviewerCost(resp) + InterviewerCost(alt)
              ELSE /\ alt = "fresh"
                   /\ events + InterviewerCost(resp) <= MaxEvents
                   /\ events' = events + InterviewerCost(resp)
        /\ LET question == interviewer_generate_question(resp, alt, current_topic,
                                                         questions_asked)
           IN  /\ messages' = Append(messages, Message("interviewer", question))
               /\ current_question' = question
               /\ questions_asked' = Append(questions_asked, question)
               /\ current_answer' = current_answer
    /\ llm_call' = LLMCall("Interviewer", InterviewerClient)
    /\ pc' = "get_user_answer"
    /\ prev' = "generate_question"
    /\ UNCHANGED <<current_topic, difficulty_level, assessment, observer_recommendation,
                   interview_complete, coordinator_instruction, log_data,
                   final_feedback, coord_call, raised_from, stop_snapshot,
                   observer_call, disk>>

\* generate_question(state)
generate_question ==
    /\ pc = "generate_question"
    /\ UNCHANGED <<process, candidate_info>>
    /\ \E resp, alt \in InterviewerResponses :
        /\ resp = "repeat" => questions_asked # <<>>
        /\ IF NeedsAlternative(resp, questions_asked)
              THEN /\ alt = "repeat" => questions_asked # <<>>
                   /\ events + InterviewerCost(resp) + InterviewerCost(alt) <= MaxEvents
                   /\ events' = events + InterviewerCost(resp) + InterviewerCost(alt)
              ELSE /\ alt = "fresh"
                   /\ events + InterviewerCost(resp) <= MaxEvents
                   /\ events' = events + InterviewerCost(resp)
        /\ LET question == interviewer_generate_question(resp, alt, current_topic,
                                                         questions_asked)
           IN  /\ messages' = Append(messages, Message("interviewer", question))
               /\ current_question' = question
               /\ questions_asked' = Append(questions_asked, question)
               /\ current_answer' = ""
    /\ llm_call' = LLMCall("Interviewer", InterviewerClient)
    /\ pc' = "get_user_answer"
    /\ prev' = "generate_question"
    /\ UNCHANGED <<current_topic, difficulty_level, assessment, observer_recommendation,
                   interview_complete, coordinator_instruction, log_data,
                   final_feedback, coord_call, raised_from, stop_snapshot,
                   observer_call, disk>>

\* get_user_answer without the except clause of input(): EOFError leaves
\* the node
get_user_answer_eof_raises ==
    /\ pc = "get_user_answer"
    /\ UNCHANGED <<process, candidate_info>>
    /\ \E line \in UserInputs :
        /\ events + InputCost(line) <= MaxEvents
        /\ events' = events + InputCost(line)
        /\ IF line = EOF
              THEN /\ pc' = Aborted
                   /\ raised_from' = "input"
                   /\ stop_snapshot' = [taken |-> TRUE,
                                        line |-> line,
                                        assessment |-> assessment,
                                        turns |-> log_data.turns]
                   /\ UNCHANGED <<interview_complete, current_answer, messages>>
           ELSE IF IsStopKeyword(line)
              THEN /\ interview_complete' = TRUE
                   /\ current_answer' = line
                   /\ stop_snapshot' = [taken |-> TRUE,
                                        line |-> line,
                                        assessment |-> assessment,
                                        turns |-> log_data.turns]
                   /\ pc' = "analyze_answer"
                   /\ UNCHANGED <<messages, raised_from>>
              ELSE /\ messages' = Append(messages, Message("user", line))
                   /\ current_answer' = line
                   /\ pc' = "analyze_answer"
                   /\ UNCHANGED <<interview_complete, stop_snapshot, raised_from>>
    /\ prev' = "get_user_answer"
    /\ UNCHANGED <<current_topic, difficulty_level, assessment, questions_asked,
                   observer_recommendation, current_question, coordinator_instruction,
                   log_data, final_feedback, coord_call, observer_call,
                   llm_call, disk>>

\* get_user_answer(state).  The edge to analyze_answer is unconditional.
get_user_answer ==
    /\ pc = "get_user_answer"
    /\ UNCHANGED <<process, candidate_info>>
    /\ \E line \in UserInputs :
        /\ events + InputCost(line) <= MaxEvents
        /\ events' = events + InputCost(line)
        /\ LET user_input == IF line = EOF THEN "ru_stop" ELSE line
           IN  IF IsStopKeyword(user_input)
                  THEN /\ interview_complete' = TRUE
                       /\ current_answer' = user_input
                       /\ stop_snapshot' = [taken |-> TRUE,
                                            line |-> line,
                                            assessment |-> assessment,
                                            turns |-> log_data.turns]
                       /\ UNCHANGED messages
                  ELSE /\ messages' = Append(messages, Message("user", user_input))
                       /\ current_answer' = user_input
                       /\ UNCHANGED <<interview_complete, stop_snapshot>>
    /\ pc' = "analyze_answer"
    /\ prev' = "get_user_answer"
    /\ UNCHANGED <<current_topic, difficulty_level, assessment, questions_asked,
                   observer_recommendation, current_question, coordinator_instruction,
                   log_data, final_feedback, coord_call, raised_from, observer_call,
                   llm_call, disk>>

\* analyze_answer(state).  The try block catches what the Observer raises;
\* the Assessment object the Observer changed in place stays in the state.
analyze_answer ==
    /\ pc = "analyze_answer"
    /\ UNCHANGED <<process, candidate_info>>
    /\ pc' = "coordinator_decision"
    /\ prev' = "analyze_answer"
    /\ UNCHANGED <<current_topic, difficulty_level, questions_asked, messages,
                   interview_complete, current_question, current_answer,
                   final_feedback, coord_call, stop_snapshot, disk>>
    /\ IF Falsy(current_question) \/ Falsy(current_answer)
          THEN /\ observer_call' = [NoObserverCall EXCEPT
                                       !.n = observer_call.n,
                                       !.in_range = observer_call.in_range]
               /\ UNCHANGED <<assessment, observer_recommendation,
                              coordinator_instruction, log_data, events, raised_from,
                              llm_call>>
          ELSE \E resp \in ObserverResponses :
               /\ events + ObserverCost(resp) <= MaxEvents
               /\ events' = events + ObserverCost(resp)
               /\ llm_call' = LLMCall("Observer", ObserverClient)
               /\ LET r == observer_analyze_answer(resp, assessment, current_answer)
                  IN  /\ assessment' = r.assessment
                      /\ observer_call' = ObserverCall(observer_call, resp, current_answer,
                                                       assessment, log_data.turns, r)
                      /\ IF r.raised
                            THEN /\ raised_from' = "Observer"
                                 /\ UNCHANGED <<observer_recommendation,
                                                coordinator_instruction, log_data>>
                            ELSE /\ log_data' = add_turn(log_data, current_question,
                                                         current_answer)
                                 /\ observer_recommendation' =
                                        r.analysis.recommendation_for_next_question
                                 /\ coordinator_instruction' = None
                                 /\ UNCHANGED raised_from

\* generate_feedback in which an error of save_to_file leaves the node
generate_feedback_fatal_save ==
    /\ pc = "generate_feedback"
    /\ UNCHANGED <<process, candidate_info>>
    /\ \E resp \in ReporterResponses, saved \in BOOLEAN :
        LET feedback == reporter_generate_feedback(resp, assessment, candidate_info)
        IN  /\ log_data' = save_final_feedback(log_data, feedback)
            /\ final_feedback' = IF saved THEN feedback ELSE final_feedback
            /\ events + SaveCost(saved) <= MaxEvents
            /\ events' = events + SaveCost(saved)
            /\ disk' = IF saved
                           THEN [disk EXCEPT !.interview_log = save_to_file(log_data')]
                           ELSE disk
            /\ pc' = IF saved THEN "end_interview" ELSE Aborted
    /\ llm_call' = LLMCall("Reporter", ReporterClient)
    /\ prev' = "generate_feedback"
    /\ UNCHANGED <<current_topic, difficulty_level, assessment, questions_asked,
                   messages, observer_recommendation, interview_complete,
                   current_question, current_answer, coordinator_instruction,
                   coord_call, raised_from, stop_snapshot, observer_call>>

\* generate_feedback(state).  What save_to_file raises is caught and
\* printed: the file is written or it is not.
generate_feedback ==
    /\ pc = "generate_feedback"
    /\ UNCHANGED <<process, candidate_info>>
    /\ \E resp \in ReporterResponses, saved \in BOOLEAN :
        LET feedback == reporter_generate_feedback(resp, assessment, candidate_info)
        IN  /\ log_data' = save_final_feedback(log_data, feedback)
            /\ final_feedback' = feedback
            /\ events + SaveCost(saved) <= MaxEvents
            /\ events' = events + SaveCost(saved)
            /\ disk' = IF saved
                           THEN [disk EXCEPT !.interview_log = save_to_file(log_data')]
                           ELSE disk
    /\ llm_call' = LLMCall("Reporter", ReporterClient)
    /\ pc' = "end_interview"
    /\ prev' = "generate_feedback"
    /\ UNCHANGED <<current_topic, difficulty_level, assessment, questions_asked,
                   messages, observer_recommendation, interview_complete,
                   current_question, current_answer, coordinator_instruction,
                   coord_call, raised_from, stop_snapshot, observer_call>>

\* end_interview with an edge back to coordinator_decision instead of END
end_interview_back_to_routing ==
    /\ pc = "end_interview"
    /\ UNCHANGED <<process, candidate_info>>
    /\ pc' = "coordinator_decision"
    /\ prev' = "end_interview"
    /\ UNCHANGED <<current_topic, difficulty_level, assessment, questions_asked,
                   messages, observer_recommendation, interview_complete,
                   current_question, current_answer, coordinator_instruction,
                   log_data, final_feedback, events, coord_call, raised_from,
                   stop_snapshot, observer_call, llm_call, disk>>

\* end_interview(state)
end_interview ==
    /\ pc = "end_interview"
    /\ UNCHANGED <<process, candidate_info>>
    /\ pc' = END
    /\ prev' = "end_interview"
    /\ UNCHANGED <<current_topic, difficulty_level, assessment, questions_asked,
                   messages, observer_recommendation, interview_complete,
                   current_question, current_answer, coordinator_instruction,
                   log_data, final_feedback, events, coord_call, raised_from,
                   stop_snapshot, observer_call, llm_call, disk>>

Next ==
    \/ start_interview
    \/ coordinator_decision
    \/ generate_question
    \/ get_user_answer
    \/ analyze_answer
    \/ generate_feedback
    \/ end_interview

Spec == Init /\ [][Next]_vars

\* app.invoke runs the node the graph is at: a session at generate_feedback
\* or end_interview does not stay there.
FairSpec == Spec /\ WF_vars(generate_feedback) /\ WF_vars(end_interview)

(***************************************************************************)
(* A session the user can interrupt                                        *)
(***************************************************************************)

\* The handler writing the log run() built, not the log of the nodes
interrupted_log_initial(initial_log, state_log) == initial_log

\* initial_state["log_data"] in the except KeyboardInterrupt clause of
\* run().  initial_log is the dict run() built, state_log the log the nodes
\* hold.  No node replaces the dict under the key log_data and add_turn and
\* save_final_feedback change it in place, so this is the dict that
\* carries the turns recorded so far.
interrupted_log(initial_log, state_log) == state_log

\* KeyboardInterrupt (Ctrl-C) while a node runs: it passes every
\* "except Exception" and app.invoke, and run() saves the log under the
\* name interview_interrupted_<n>.json; what save_to_file raises is caught
\* and printed.  run() returns and the state dict is dropped: only the log
\* the handler read is kept here.
keyboard_interrupt ==
    /\ pc \in Nodes
    /\ UNCHANGED <<process, candidate_info>>
    /\ pc' = Interrupted
    /\ prev' = pc
    /\ \E saved \in BOOLEAN :
        disk' = IF saved
                   THEN [disk EXCEPT !.interview_interrupted =
                            save_to_file(interrupted_log(init_log_data, log_data))]
                   ELSE disk
    /\ current_topic' = ""
    /\ difficulty_level' = DEFAULT_DIFFICULTY
    /\ assessment' = Assessment
    /\ questions_asked' = <<>>
    /\ messages' = <<>>
    /\ observer_recommendation' = None
    /\ interview_complete' = FALSE
    /\ current_question' = None
    /\ current_answer' = None
    /\ coordinator_instruction' = None
    /\ final_feedback' = NoFeedback
    /\ events' = 0
    /\ coord_call' = NoCall
    /\ raised_from' = None
    /\ stop_snapshot' = NoSnapshot
    /\ observer_call' = NoObserverCall
    /\ llm_call' = NoCall
    /\ UNCHANGED log_data

InterruptNext == Next \/ keyboard_interrupt

InterruptSpec == Init /\ [][InterruptNext]_vars

(***************************************************************************)
(* The Observer driven on its own: a sequence of evaluations folded into   *)
(* one Assessment                                                          *)
(***************************************************************************)

ObserverInit ==
    /\ process = NoProcess
    /\ candidate_info = CandidateInfo
    /\ pc = "observer"
    /\ prev = None
    /\ current_topic = ""
    /\ difficulty_level = DEFAULT_DIFFICULTY
    /\ assessment = Assessment
    /\ questions_asked = <<>>
    /\ messages = <<>>
    /\ observer_recommendation = None
    /\ interview_complete = FALSE
    /\ current_question = None
    /\ current_answer = None
    /\ coordinator_instruction = None
    /\ log_data = init_log_data
    /\ final_feedback = NoFeedback
    /\ events = 0
    /\ coord_call = NoCall
    /\ raised_from = None
    /\ stop_snapshot = NoSnapshot
    /\ observer_call = NoObserverCall
    /\ llm_call = NoCall
    /\ disk = NoFiles

\* One call of ObserverAgent.analyze_answer(state, question, answer) on the
\* Assessment the calls before it left.
observer_evaluation ==
    /\ pc = "observer"
    /\ UNCHANGED <<process, candidate_info>>
    /\ observer_call.n < MaxEvaluations
    /\ \E resp \in EvaluationResponses, answer \in {"ne znayu", LongAnswer} :
        /\ resp # "error" => answer = "ne znayu"
        /\ LET r == observer_analyze_answer(resp, assessment, answer)
           IN  /\ assessment' = r.assessment
               /\ observer_call' = ObserverCall(observer_call, resp, answer,
                                                assessment, log_data.turns, r)
    /\ llm_call' = LLMCall("Observer", ObserverClient)
    /\ UNCHANGED <<pc, prev, current_topic, difficulty_level, questions_asked,
                   messages, observer_recommendation, interview_complete,
                   current_question, current_answer, coordinator_instruction,
                   log_data, final_feedback, events, coord_call, raised_from,
                   stop_snapshot, disk>>

ObserverNext == observer_evaluation

ObserverSpec == ObserverInit /\ [][ObserverNext]_vars

(***************************************************************************)
(* The Reporter run on any Assessment and any declared grade               *)
(***************************************************************************)

\* Scores at and next to the thresholds of the two verdict tables
VerdictScores ==
    {0, 10 * ScoreScale, (65 * ScoreScale) \div 10}
        \cup {k * ScoreScale : k \in 4..9}
        \cup {k * ScoreScale - 1 : k \in 4..9}

Grades == {"Junior", "Middle", "Senior", "junior", "Lead"}

\* The knowledge-gap maps _update_assessment can leave: empty, or a
\* correction under its one key
VerdictGaps ==
    {<<>>, [k \in {KnowledgeGapKey} |-> Text("Oshibka pri proverke", 72)]}

\* The state generate_feedback is entered in: any grade, any technical and
\* communication score.
ReporterInit ==
    /\ process = NoProcess
    /\ candidate_info \in {[grade |-> g] : g \in Grades}
    /\ pc = "generate_feedback"
    /\ prev = "coordinator_decision"
    /\ current_topic = ""
    /\ difficulty_level = DEFAULT_DIFFICULTY
    /\ assessment \in {[Assessment EXCEPT !.technical_score = t,
                                          !.communication_score = c,
                                          !.knowledge_gaps = g] :
                           t \in VerdictScores, c \in VerdictScores,
                           g \in VerdictGaps}
    /\ questions_asked = <<>>
    /\ messages = <<>>
    /\ observer_recommendation = None
    /\ interview_complete = TRUE
    /\ current_question = None
    /\ current_answer = None
    /\ coordinator_instruction = None
    /\ log_data = init_log_data
    /\ final_feedback = NoFeedback
    /\ events = 0
    /\ coord_call = NoCall
    /\ raised_from = None
    /\ stop_snapshot = NoSnapshot
    /\ observer_call = NoObserverCall
    /\ llm_call = NoCall
    /\ disk = NoFiles

ReporterNext == generate_feedback \/ end_interview

ReporterSpec == ReporterInit /\ [][ReporterNext]_vars

(***************************************************************************)
(* The text of the reasoning service and what the Coordinator and the      *)
(* Observer make of it                                                     *)
(***************************************************************************)

\* A text is a sequence of parts: prose without a brace, a brace pair that
\* is not JSON ("{x}"), or the text of a JSON object with the given value.
\* No part holds a code fence or a control character.
Prose == [kind |-> "prose"]

Braces == [kind |-> "braces"]

Object(value) == [kind |-> "object", value |-> value]

Texts(parts) == UNION {[1..n -> parts] : n \in 0..MaxParts}

\* json.loads(text): only the text of one JSON object, alone, parses.
json_loads(text) ==
    IF Len(text) = 1 /\ text[1].kind = "object"
        THEN [ok |-> TRUE, value |-> text[1].value]
        ELSE [ok |-> FALSE]

\* re.search(r'\{.*\}', text, re.DOTALL): the match runs from the first
\* '{' of the text to its last '}'.
brace_search(text) ==
    LET braced == {i \in 1..Len(text) : text[i].kind \in {"object", "braces"}}
        first == CHOOSE i \in braced : \A j \in braced : i <= j
        last == CHOOSE i \in braced : \A j \in braced : j <= i
    IN  IF braced = {}
            THEN [found |-> FALSE]
            ELSE [found |-> TRUE, group |-> SubSeq(text, first, last)]

\* The response record decide_next_step works with for a text:
\* response.content, stripped, goes to json.loads as it is.
CoordinatorResponseOf(text) ==
    LET parsed == json_loads(text)
    IN  IF parsed.ok
            THEN [kind |-> "json",
                  action |-> parsed.value.action,
                  new_topic |-> parsed.value.new_topic,
                  new_difficulty |-> parsed.value.new_difficulty]
            ELSE [kind |-> "unparsable"]

\* _clean_json_response(text).  "import json" in the except clause makes
\* json a local name of the whole function, so json.loads(text) in the try
\* block raises UnboundLocalError for every text and the except clause
\* always runs.
clean_json_response(text) ==
    LET matches == brace_search(text)
    IN  IF text = <<>> THEN <<Object(DefaultAnalysis)>>
        ELSE IF matches.found THEN matches.group
        ELSE <<Object(DefaultAnalysis)>>

\* ObserverAgent.analyze_answer(state, question, answer) for a text of the
\* reasoning service.
observer_analyze_text(text, a, answer) ==
    LET verification == verify_technical_answer
        parsed == json_loads(clean_json_response(text))
        analysis == IF parsed.ok THEN parsed.value
                    ELSE fallback_analysis(answer, verification)
        updated == update_assessment(a, analysis)
    IN  [raised |-> updated.raised,
         verification |-> verification,
         analysis |-> analysis,
         assessment |-> updated.assessment]

\* The parts of the texts the two agents are given
\* An object without the key "action" is the object whose action is None:
\* decide_next_step reads it with decision.get("action").
CoordinatorParts ==
    {Prose, Braces,
     Object([action |-> "change_topic", new_topic |-> "Python", new_difficulty |-> 3]),
     Object([action |-> "skip", new_topic |-> "", new_difficulty |-> 2]),
     Object([action |-> None, new_topic |-> "", new_difficulty |-> 2])}

ObserverParts == {Prose, Braces, Object(ValidAnalysis), Object(ZeroAnalysis)}

ParserInit ==
    /\ process = NoProcess
    /\ candidate_info = CandidateInfo
    /\ pc = "parser"
    /\ prev = None
    /\ current_topic = ""
    /\ difficulty_level = DEFAULT_DIFFICULTY
    /\ assessment = Assessment
    /\ questions_asked = <<>>
    /\ messages = <<>>
    /\ observer_recommendation = None
    /\ interview_complete = FALSE
    /\ current_question = None
    /\ current_answer = None
    /\ coordinator_instruction = None
    /\ log_data = init_log_data
    /\ final_feedback = NoFeedback
    /\ events = 0
    /\ coord_call = NoCall
    /\ raised_from = None
    /\ stop_snapshot = NoSnapshot
    /\ observer_call = NoObserverCall
    /\ llm_call = NoCall
    /\ disk = NoFiles

\* One call of CoordinatorAgent.decide_next_step(state) with a text
coordinator_parse ==
    /\ pc = "parser"
    /\ UNCHANGED <<process, candidate_info>>
    /\ ~coord_call.called
    /\ \E text \in Texts(CoordinatorParts) :
        LET resp == CoordinatorResponseOf(text)
            r == decide_next_step(resp, Len(questions_asked), current_topic,
                                  difficulty_level)
        IN  coord_call' = [called |-> TRUE,
                           text |-> text,
                           response |-> resp.kind,
                           questions_count |-> Len(questions_asked),
                           technical_score |-> assessment.technical_score,
                           topic |-> current_topic,
                           difficulty |-> difficulty_level,
                           raised |-> r.raised,
                           decision |-> r.decision]
    /\ llm_call' = LLMCall("Coordinator", CoordinatorClient)
    /\ UNCHANGED <<pc, prev, current_topic, difficulty_level, assessment,
                   questions_asked, messages, observer_recommendation,
                   interview_complete, current_question, current_answer,
                   coordinator_instruction, log_data, final_feedback, events,
                   raised_from, stop_snapshot, observer_call, disk>>

\* One call of ObserverAgent.analyze_answer(state, question, answer) with a
\* text
observer_parse ==
    /\ pc = "parser"
    /\ UNCHANGED <<process, candidate_info>>
    /\ ~observer_call.called
    /\ \E text \in Texts(ObserverParts) :
        LET r == observer_analyze_text(text, assessment, "ne znayu")
            call == ObserverCall(observer_call, "text", "ne znayu", assessment,
                                 log_data.turns, r)
        IN  /\ assessment' = r.assessment
            /\ observer_call' = [k \in DOMAIN call \cup {"text"} |->
                                    IF k = "text" THEN text ELSE call[k]]
    /\ llm_call' = LLMCall("Observer", ObserverClient)
    /\ UNCHANGED <<pc, prev, current_topic, difficulty_level, questions_asked,
                   messages, observer_recommendation, interview_complete,
                   current_question, current_answer, coordinator_instruction,
                   log_data, final_feedback, events, coord_call, raised_from,
                   stop_snapshot, disk>>

ParserNext == coordinator_parse \/ observer_parse

ParserSpec == ParserInit /\ [][ParserNext]_vars

(***************************************************************************)
(* Two sessions in one process.  The state of a session holds references   *)
(* to objects; a node changes an object in place or puts a new object in   *)
(* the state.  The single-session variables stay as Init leaves them.      *)
(***************************************************************************)

Sessions == 1..2

\* The InterviewWorkflow objects of the process
Workflows == 1..2

\* The keys of InterviewState that hold mutable objects
StateKeys == {"assessment", "questions_asked", "messages", "log_data"}

\* The keys of initial_state in run(), of those
InputKeys == {"assessment", "questions_asked", "messages", "log_data"}

\* The name of an object: the session that created it (0: the class body),
\* the field it was created for, and its version
Ref(owner, field, version) == <<owner, field, version>>

\* The list and the dict written as defaults in the class body of Assessment
ClassDefaults ==
    (Ref(0, "soft_skills_notes", 0) :> [items |-> <<>>])
        @@ (Ref(0, "knowledge_gaps", 0) :> [items |-> <<>>])

\* Assessment() whose instances all refer to the defaults of the class body
AssessmentInstance_shared_defaults(s) ==
    Ref(s, "assessment", 0) :>
        [technical_score |-> 0,
         soft_skills_notes |-> Ref(0, "soft_skills_notes", 0),
         knowledge_gaps |-> Ref(0, "knowledge_gaps", 0)]

\* Assessment(): a pydantic model copies its mutable defaults into each
\* instance.  The objects one call creates.
AssessmentInstance(s) ==
    (Ref(s, "assessment", 0) :>
        [technical_score |-> 0,
         soft_skills_notes |-> Ref(s, "soft_skills_notes", 0),
         knowledge_gaps |-> Ref(s, "knowledge_gaps", 0)])
        @@ (Ref(s, "soft_skills_notes", 0) :> [items |-> <<>>])
        @@ (Ref(s, "knowledge_gaps", 0) :> [items |-> <<>>])

\* The objects init_log_data creates
LogInstance(s) ==
    (Ref(s, "log_data", 0) :>
        [turns |-> Ref(s, "turns", 0), final_feedback |-> [by |-> 0]])
        @@ (Ref(s, "turns", 0) :> [items |-> <<>>])

\* The objects run() creates for initial_state
initial_objects(s) ==
    AssessmentInstance(s)
        @@ LogInstance(s)
        @@ (Ref(s, "questions_asked", 0) :> [items |-> <<>>])
        @@ (Ref(s, "messages", 0) :> [items |-> <<>>])

\* initial_state of run(), its keys that hold objects
initial_state(s) ==
    [assessment |-> Ref(s, "assessment", 0),
     questions_asked |-> Ref(s, "questions_asked", 0),
     messages |-> Ref(s, "messages", 0),
     log_data |-> Ref(s, "log_data", 0)]

\* No state: run() has not been called.
NoState == [k \in StateKeys |-> Ref(0, "None", 0)]

\* thread_id of run()
thread_id(session) == <<session.name, session.position, session.scenario_number>>

\* app.invoke(initial_state, thread_id) with the MemorySaver of the
\* workflow: the state of the thread's last checkpoint, if there is one,
\* with every key of the input put in its place.  The checkpoint keeps the
\* objects themselves.
app_invoke(memory, tid, input) ==
    IF \E c \in memory : c.thread_id = tid
        THEN LET checkpoint == CHOOSE c \in memory : c.thread_id = tid
             IN  [k \in StateKeys |->
                    IF k \in InputKeys THEN input[k] ELSE checkpoint.state[k]]
        ELSE input

\* MemorySaver.put: the checkpoint of the thread is replaced
memory_put(memory, tid, state) ==
    {c \in memory : c.thread_id # tid} \cup {[thread_id |-> tid, state |-> state]}

\* What a session's state holds, with the references followed
SessionView(p, s) ==
    LET state == p.sessions[s].state
        a == p.heap[state.assessment]
        log == p.heap[state.log_data]
    IN  [assessment |->
            [technical_score |-> a.technical_score,
             soft_skills_notes |-> p.heap[a.soft_skills_notes].items,
             knowledge_gaps |-> p.heap[a.knowledge_gaps].items],
         questions_asked |-> p.heap[state.questions_asked].items,
         messages |-> p.heap[state.messages].items,
         log_data |-> [turns |-> p.heap[log.turns].items,
                       final_feedback |-> log.final_feedback]]

\* The second session of the process: its workflow, candidate and scenario
\* are those of the first session or others.
TwoSessions(workflow, name, scenario_number) ==
    [started |-> TRUE,
     heap |-> ClassDefaults,
     sessions |->
        [s \in Sessions |->
            [pc |-> "new",
             workflow |-> IF s = 1 THEN 1 ELSE workflow,
             name |-> IF s = 1 THEN "Anna" ELSE name,
             position |-> "Python Developer",
             scenario_number |-> IF s = 1 THEN 1 ELSE scenario_number,
             state |-> NoState]],
     memory |-> [w \in Workflows |-> {}],
     files |-> [n \in 1..2 |-> [written |-> FALSE, by |-> 0]],
     actor |-> 0]

TwoSessionInit ==
    /\ process \in {TwoSessions(w, name, n) :
                        w \in Workflows, name \in {"Anna", "Boris"}, n \in 1..2}
    /\ candidate_info = CandidateInfo
    /\ pc = "start_interview"
    /\ prev = None
    /\ current_topic = ""
    /\ difficulty_level = DEFAULT_DIFFICULTY
    /\ assessment = Assessment
    /\ questions_asked = <<>>
    /\ messages = <<>>
    /\ observer_recommendation = None
    /\ interview_complete = FALSE
    /\ current_question = None
    /\ current_answer = None
    /\ coordinator_instruction = None
    /\ log_data = init_log_data
    /\ final_feedback = NoFeedback
    /\ events = 0
    /\ coord_call = NoCall
    /\ raised_from = None
    /\ stop_snapshot = NoSnapshot
    /\ observer_call = NoObserverCall
    /\ llm_call = NoCall
    /\ disk = NoFiles

OneSessionVars ==
    <<candidate_info, pc, prev, current_topic, difficulty_level, assessment,
      questions_asked, messages, observer_recommendation, interview_complete,
      current_question, current_answer, coordinator_instruction, log_data,
      final_feedback, events, coord_call, raised_from, stop_snapshot,
      observer_call, llm_call, disk>>

\* A list with one more item, as a new object of session s
Extended(heap, ref, s, field, item) ==
    LET items == Append(heap[ref].items, item)
    IN  [ref |-> Ref(s, field, Len(items)), object |-> [items |-> items]]

\* run(candidate_info, scenario_number) up to the entry of the graph:
\* initial_state is built and app.invoke starts the thread.
session_run ==
    /\ process.started
    /\ \E s \in Sessions :
        LET session == process.sessions[s]
            tid == thread_id(session)
            state == app_invoke(process.memory[session.workflow], tid, initial_state(s))
        IN  /\ session.pc = "new"
            /\ process' = [process EXCEPT
                    !.heap = initial_objects(s) @@ @,
                    !.sessions[s].state = state,
                    !.sessions[s].pc = "coordinator_decision",
                    !.memory[session.workflow] = memory_put(@, tid, state),
                    !.actor = s]
    /\ UNCHANGED OneSessionVars

\* coordinator_decision and check_should_continue for a session: at the
\* maximum of questions the session ends, before it the Coordinator decides.
session_coordinator_decision ==
    /\ process.started
    /\ \E s \in Sessions, action \in {"continue", "end_interview"} :
        LET session == process.sessions[s]
            questions_count == Len(process.heap[session.state.questions_asked].items)
        IN  /\ session.pc = "coordinator_decision"
            /\ action = "continue" => questions_count < MaxSessionTurns
            /\ process' = [process EXCEPT
                    !.sessions[s].pc = IF action = "continue"
                                           THEN "generate_question"
                                           ELSE "generate_feedback",
                    !.actor = s]
    /\ UNCHANGED OneSessionVars

\* generate_question for a session: state["messages"] and
\* state["questions_asked"] become new lists with one more item.
session_generate_question ==
    /\ process.started
    /\ \E s \in Sessions :
        LET session == process.sessions[s]
            m == Extended(process.heap, session.state.messages, s, "messages",
                          [by |-> s, role |-> "interviewer"])
            q == Extended(process.heap, session.state.questions_asked, s,
                          "questions_asked", [by |-> s])
            state == [session.state EXCEPT !.messages = m.ref,
                                           !.questions_asked = q.ref]
        IN  /\ session.pc = "generate_question"
            /\ process' = [process EXCEPT
                    !.heap = (m.ref :> m.object) @@ (q.ref :> q.object) @@ @,
                    !.sessions[s].state = state,
                    !.sessions[s].pc = "get_user_answer",
                    !.memory[session.workflow] =
                        memory_put(@, thread_id(session), state),
                    !.actor = s]
    /\ UNCHANGED OneSessionVars

\* get_user_answer for a session: state["messages"] becomes a new list.
session_get_user_answer ==
    /\ process.started
    /\ \E s \in Sessions :
        LET session == process.sessions[s]
            m == Extended(process.heap, session.state.messages, s, "messages",
                          [by |-> s, role |-> "user"])
            state == [session.state EXCEPT !.messages = m.ref]
        IN  /\ session.pc = "get_user_answer"
            /\ process' = [process EXCEPT
                    !.heap = (m.ref :> m.object) @@ @,
                    !.sessions[s].state = state,
                    !.sessions[s].pc = "analyze_answer",
                    !.memory[session.workflow] =
                        memory_put(@, thread_id(session), state),
                    !.actor = s]
    /\ UNCHANGED OneSessionVars

\* analyze_answer for a session: _update_assessment changes the Assessment
\* object, its notes list and its gaps dict in place, add_turn appends to
\* the turns list of the log in place.
session_analyze_answer ==
    /\ process.started
    /\ \E s \in Sessions :
        LET session == process.sessions[s]
            a == session.state.assessment
            notes == process.heap[a].soft_skills_notes
            gaps == process.heap[a].knowledge_gaps
            turns == process.heap[session.state.log_data].turns
            h1 == [process.heap EXCEPT ![a].technical_score = @ + 1]
            h2 == [h1 EXCEPT ![notes].items = Append(@, [by |-> s])]
            h3 == [h2 EXCEPT ![gaps].items = <<[by |-> s]>>]
            h4 == [h3 EXCEPT ![turns].items = Append(@, [by |-> s])]
        IN  /\ session.pc = "analyze_answer"
            /\ process' = [process EXCEPT
                    !.heap = h4,
                    !.sessions[s].pc = "coordinator_decision",
                    !.actor = s]
    /\ UNCHANGED OneSessionVars

\* generate_feedback and end_interview for a session: save_final_feedback
\* writes into the log in place, save_to_file writes
\* interview_log_{scenario_number}.json.
session_generate_feedback ==
    /\ process.started
    /\ \E s \in Sessions :
        LET session == process.sessions[s]
        IN  /\ session.pc = "generate_feedback"
            /\ process' = [process EXCEPT
                    !.heap[session.state.log_data].final_feedback = [by |-> s],
                    !.files[session.scenario_number] = [written |-> TRUE, by |-> s],
                    !.sessions[s].pc = "END",
                    !.actor = s]
    /\ UNCHANGED OneSessionVars

TwoSessionNext ==
    \/ session_run
    \/ session_coordinator_decision
    \/ session_generate_question
    \/ session_get_user_answer
    \/ session_analyze_answer
    \/ session_generate_feedback

TwoSessionSpec == TwoSessionInit /\ [][TwoSessionNext]_vars

(***************************************************************************)
(* Properties                                                              *)
(***************************************************************************)

\* C1: when the answer entered in get_user_answer is a stop keyword, the
\* node that runs next is generate_feedback: neither analyze_answer nor
\* coordinator_decision runs between the stop and the report.
C1_StopGoesToReporting ==
    (prev = "get_user_answer" /\ IsStopKeyword(current_answer))
        => pc = "generate_feedback"

\* C2: whatever the reasoning service and the candidate do, a session ends
\* only at END, after generate_feedback, with the final feedback stored in
\* the log; it never stops in an intermediate stage.
C2_SessionEndsInReport ==
    pc \notin Nodes
        => /\ pc = END
           /\ final_feedback.kind # "none"
           /\ log_data.final_feedback = final_feedback.full_text_feedback

\* C3: the number of questions asked never exceeds MAX_TURNS, and when it
\* has reached MAX_TURNS the routing step goes to generate_feedback.
C3_TurnCap ==
    /\ Len(questions_asked) <= MAX_TURNS
    /\ (prev = "coordinator_decision" /\ Len(questions_asked) >= MAX_TURNS)
            => pc = "generate_feedback"

C3_Witness ==
    /\ prev = "coordinator_decision"
    /\ Len(questions_asked) = MAX_TURNS
    /\ pc = "generate_feedback"

\* C4: when the reasoning service returns unparsable text to the
\* Coordinator, decide_next_step raises nothing, returns the fallback
\* decision for the state it was called in, and the session goes on.
C4_UnparsableFallsBack ==
    (coord_call.called /\ coord_call.response = "unparsable")
        => /\ ~coord_call.raised
           /\ coord_call.decision \in
                {[action |-> a,
                  new_topic |-> coord_call.topic,
                  new_difficulty |-> coord_call.difficulty,
                  instruction_to_interviewer |-> DefaultInstruction] :
                    a \in {"continue", "end_interview"}}
           /\ pc # Aborted

\* The action the fallback rule names for a turn count and a technical score.
FallbackRuleAction(questions_count, technical_score) ==
    IF \/ questions_count >= MAX_TURNS
       \/ (questions_count >= HighLevelTurns
           /\ technical_score > HighLevelScore * ScoreScale)
        THEN "end_interview"
        ELSE "continue"

\* C5: the fallback decision has the action of the fallback rule for the
\* turn count and technical score it is computed from, and carries the
\* current topic and difficulty.
C5_FallbackFollowsRule ==
    (coord_call.called /\ coord_call.response # "json")
        => /\ ~coord_call.raised
           /\ coord_call.decision.action =
                FallbackRuleAction(coord_call.questions_count, coord_call.technical_score)
           /\ coord_call.decision.new_topic = coord_call.topic
           /\ coord_call.decision.new_difficulty = coord_call.difficulty

\* C6: no exception leaves an agent: whatever the reasoning service
\* returns, each agent hands a usable value to the node that called it.
C6_NoAgentRaises == raised_from = None

\* C7: questions_asked never holds the same question twice.
C7_NoRepeatedQuestion == NoDuplicates(questions_asked)

\* C8: the turns of the log carry the turn_id values 1..N in order.
C8_TurnIdsSequential ==
    \A i \in 1..Len(log_data.turns) : log_data.turns[i].turn_id = i

C8_Witness == pc = END /\ Len(log_data.turns) >= 3

\* C9: every step keeps the turns recorded so far as a prefix of the
\* log's turn list.
C9_TurnsAppendOnly == [][IsPrefix(log_data.turns, log_data'.turns)]_vars

C9_Witness ==
    /\ pc = END
    /\ stop_snapshot.taken
    /\ raised_from = "Observer"
    /\ Len(log_data.turns) >= 2
    /\ log_data.final_feedback # ""

\* C10: after a stop keyword the assessment and the log's turn list stay
\* as they were when the keyword was entered.
C10_StopLeavesProfile ==
    stop_snapshot.taken
        => /\ assessment = stop_snapshot.assessment
           /\ log_data.turns = stop_snapshot.turns

\* Each of the three running scores of the Assessment lies in [0, 10].
RunningScoresInScale ==
    /\ assessment.technical_score \in 0..(10 * ScoreScale)
    /\ assessment.communication_score \in 0..(10 * ScoreScale)
    /\ assessment.confidence_score \in 0..(10 * ScoreScale)

\* C11: as long as every evaluation folded into the Assessment had its
\* technical, communication and confidence values in [0, 10], each of the
\* three running scores, which start at 0, lies in [0, 10].
C11_InScaleEvaluationsKeepScale == observer_call.in_range => RunningScoresInScale

C11_Witness ==
    /\ observer_call.n = MaxEvaluations
    /\ observer_call.in_range
    /\ assessment.technical_score > 8 * ScoreScale
    /\ assessment.communication_score > 8 * ScoreScale

\* C12: whatever scores the reasoning service returns in an evaluation,
\* they are clamped before the update, so each running score of the
\* Assessment lies in [0, 10] after every Observer call.
C12_ServiceScoresClamped == observer_call.called => RunningScoresInScale

\* C13: when the evaluation of a turn raises, the Assessment is the one
\* from before the call in every field, and the log holds the turns it
\* held before the call.
C13_FailedEvaluationChangesNothing ==
    (observer_call.called /\ observer_call.raised)
        => /\ assessment = observer_call.before
           /\ log_data.turns = observer_call.turns_before

HardStop ==
    \/ Len(questions_asked) >= MAX_TURNS
    \/ (Len(questions_asked) >= HighLevelTurns
        /\ assessment.technical_score > HighLevelScore * ScoreScale)
    \/ stop_snapshot.taken

\* C15: after coordinator_decision the next node is generate_feedback
\* exactly when the Coordinator's decision is end_interview or a hard stop
\* condition holds, and generate_question in every other case.
C15_RoutingRule ==
    prev = "coordinator_decision"
        => LET to_report ==
                   \/ HardStop
                   \/ /\ coord_call.called
                      /\ ~coord_call.raised
                      /\ coord_call.decision.action = "end_interview"
           IN  /\ (pc = "generate_feedback") <=> to_report
               /\ ~to_report => pc = "generate_question"

\* C16: when coordinator_decision goes on to generate_question with a
\* decision that names a new topic and a new difficulty, the state the
\* Interviewer gets has that topic and that difficulty.
C16_DecisionReachesInterviewer ==
    (/\ prev = "coordinator_decision"
     /\ pc = "generate_question"
     /\ coord_call.called
     /\ ~coord_call.raised
     /\ coord_call.decision.new_topic # "")
        => /\ current_topic = coord_call.decision.new_topic
           /\ difficulty_level = coord_call.decision.new_difficulty

C18_UnusableTextFallsBack ==
    (observer_call.called /\ observer_call.response \in {"empty", "badjson", "error"})
        => observer_call.analysis =
              fallback_analysis(observer_call.answer, observer_call.verification)

\* C19: a knowledge-base verification that fails reaches the Observer as a
\* result with confidence 0.5 and a placeholder text, and the Observer's
\* call completes with it.
C19_FailedVerificationIsNeutral ==
    observer_call.called
        => /\ observer_call.verification.confidence = 50
           /\ observer_call.verification.correct_info.len > 0

\* C20: every request to the reasoning service, of whichever agent, goes
\* through a client with a timeout and with at most 3 retries.
C20_BoundedRetries ==
    llm_call.called
        => /\ "timeout" \in DOMAIN llm_call.client
           /\ "max_retries" \in DOMAIN llm_call.client
           /\ llm_call.client.max_retries <= 3

\* The text holds a JSON object with other text around it, and no brace
\* comes before the object: the object is the first balanced brace-delimited
\* substring of the text.
WrappedObjectAt(text, i) ==
    /\ Len(text) > 1
    /\ i \in 1..Len(text)
    /\ text[i].kind = "object"
    /\ \A j \in 1..(i - 1) : text[j].kind = "prose"

\* C21: when the reasoning service returns a valid record with other text
\* around it, the Coordinator's decision and the Observer's evaluation are
\* the values of that record, not the fallback.
C21_WrappedRecordIsParsed ==
    /\ coord_call.called
        => \A i \in 1..Len(coord_call.text) :
             WrappedObjectAt(coord_call.text, i)
                => /\ ~coord_call.raised
                   /\ coord_call.decision.action = coord_call.text[i].value.action
                   /\ coord_call.decision.new_topic = coord_call.text[i].value.new_topic
    /\ observer_call.called
        => \A i \in 1..Len(observer_call.text) :
             WrappedObjectAt(observer_call.text, i)
                => observer_call.analysis = observer_call.text[i].value

\* C22: every question the Interviewer returns, on whichever path it was
\* produced, is a non-empty string that ends in '?'.
C22_QuestionsEndInMark ==
    \A i \in 1..Len(questions_asked) :
        /\ questions_asked[i] # ""
        /\ EndsWithQuestionMark(questions_asked[i])

\* C23: the hiring recommendation of the Reporter's verdict is Strong Hire
\* for tech >= 8 and comm >= 7, otherwise Hire for tech >= 6 and comm >= 5,
\* otherwise Hire with reservations for tech >= 4, otherwise No Hire.
C23_HiringTable ==
    final_feedback.kind = "llm"
        => LET tech == assessment.technical_score
               comm == assessment.communication_score
               strong == tech >= 8 * ScoreScale /\ comm >= 7 * ScoreScale
               hire == ~strong /\ tech >= 6 * ScoreScale /\ comm >= 5 * ScoreScale
               reserved == ~strong /\ ~hire /\ tech >= 4 * ScoreScale
               rec == final_feedback.verdict.hiring_recommendation
           IN  /\ strong <=> rec = "Strong Hire"
               /\ hire <=> rec = "Hire"
               /\ reserved <=> rec = "Hire with reservations"
               /\ (~strong /\ ~hire /\ ~reserved) <=> rec = "No Hire"

C23_Witness ==
    /\ final_feedback.kind = "llm"
    /\ assessment.technical_score = 9 * ScoreScale
    /\ assessment.communication_score = 7 * ScoreScale - 1
    /\ final_feedback.verdict.hiring_recommendation = "Hire"

\* The level table as stated: a Junior is 'Middle-ready Junior' from 6 and
\* 'Junior' below; "Pod voprosom" is 'Under review'.
LevelTable(grade, tech) ==
    CASE grade = "Junior" ->
            IF tech >= 6 * ScoreScale THEN "Middle-ready Junior" ELSE "Junior"
      [] grade = "Middle" ->
            IF tech >= 8 * ScoreScale THEN "Senior-ready Middle"
            ELSE IF tech >= 6 * ScoreScale THEN "Middle"
            ELSE "Junior+"
      [] grade = "Senior" ->
            IF tech >= 9 * ScoreScale THEN "Senior"
            ELSE IF tech >= 7 * ScoreScale THEN "Middle+"
            ELSE "Pod voprosom"

\* C24: the candidate level of the verdict follows the level table on the
\* declared grade and the technical score, in every cell the table defines
\* (for a Junior: scores below 7).
C24_LevelTable ==
    (/\ final_feedback.kind = "llm"
     /\ candidate_info.grade \in {"Junior", "Middle", "Senior"}
     /\ candidate_info.grade = "Junior" => assessment.technical_score < 7 * ScoreScale)
        => final_feedback.verdict.grade =
              LevelTable(candidate_info.grade, assessment.technical_score)

\* C25: when writing the log file fails in generate_feedback, the node
\* still stores the feedback in the state and in the log, keeps every
\* recorded turn, goes on to end_interview, and the session reaches END
\* with that state.
C25_FailedSaveIsNotFatal ==
    /\ [][(pc = "generate_feedback" /\ disk'.interview_log = NoFile)
            => /\ pc' = "end_interview"
               /\ final_feedback' # NoFeedback
               /\ log_data'.final_feedback = final_feedback'.full_text_feedback
               /\ log_data'.turns = log_data.turns]_vars
    /\ (pc = "generate_feedback") ~>
         (/\ pc = END
          /\ final_feedback # NoFeedback
          /\ log_data.final_feedback = final_feedback.full_text_feedback)

C25_Witness ==
    /\ pc = END
    /\ disk.interview_log = NoFile
    /\ final_feedback # NoFeedback
    /\ Len(log_data.turns) >= 2

\* C27: generate_feedback runs at most once in a session (it is entered
\* with no feedback stored) and is followed by end_interview and then END;
\* once the feedback is stored no agent is called, no question is asked, no
\* message and no turn is added and the Assessment does not change.
C27_ReportingOnceThenEnd ==
    [][/\ pc = "generate_feedback"
            => final_feedback = NoFeedback /\ pc' = "end_interview"
       /\ pc = "end_interview" => pc' = END
       /\ final_feedback # NoFeedback
            => /\ pc = "end_interview"
               /\ final_feedback' = final_feedback
               /\ questions_asked' = questions_asked
               /\ messages' = messages
               /\ log_data' = log_data
               /\ assessment' = assessment
               /\ llm_call' = llm_call
               /\ coord_call' = coord_call
               /\ observer_call' = observer_call]_vars

C27_Witness ==
    /\ pc = END
    /\ prev = "end_interview"
    /\ final_feedback # NoFeedback
    /\ llm_call.agent = "Reporter"
    /\ Len(questions_asked) >= 1

\* C28: an aggregator update that completes sets each of the three running
\* scores to exactly 0.7 * old + 0.3 * incoming (in units of 1 / ScoreScale
\* nothing is rounded away); from 0, three updates with technical value 8
\* give 5.256.
C28_WeightedUpdate ==
    (observer_call.called /\ ~observer_call.raised)
        => /\ 10 * assessment.technical_score
                = 7 * observer_call.before.technical_score
                  + 3 * observer_call.analysis.technical_score * ScoreScale
           /\ 10 * assessment.communication_score
                = 7 * observer_call.before.communication_score
                  + 3 * observer_call.analysis.communication_score * ScoreScale
           /\ 10 * assessment.confidence_score
                = 7 * observer_call.before.confidence_score
                  + 3 * observer_call.analysis.confidence_score * ScoreScale
           /\ (/\ observer_call.n = 3
               /\ observer_call.response = "eight"
               /\ observer_call.before.technical_score = 408 * (ScoreScale \div 100))
                  => assessment.technical_score = 5256 * (ScoreScale \div 1000)

C28_Witness ==
    /\ observer_call.called
    /\ ~observer_call.raised
    /\ observer_call.n = 3
    /\ observer_call.response = "eight"
    /\ observer_call.before.technical_score = 408 * (ScoreScale \div 100)
    /\ assessment.technical_score = 5256 * (ScoreScale \div 1000)

\* C29: an aggregator update that completes changes the knowledge-gap map
\* only when has_errors is true and a correction is present: then the entry
\* of the current-topic key is the first CorrectionLimit characters of the
\* correction and the other entries stay; it appends one note when
\* is_evasive, then a different note when the depth is deep, and nothing
\* else to the soft-skill notes.
C29_GapsAndNotes ==
    (observer_call.called /\ ~observer_call.raised)
        => LET analysis == observer_call.analysis
               before == observer_call.before
               gaps == assessment.knowledge_gaps
               correction == analysis.suggested_correction
               evasive == IF analysis.is_evasive
                              THEN <<"Kandidat byl uklonchiv v otvete">> ELSE <<>>
               deep == IF analysis.depth_of_knowledge = "deep"
                           THEN <<"Pokazal glubokoe ponimanie temy">> ELSE <<>>
           IN  /\ IF analysis.has_errors /\ correction.len > 0
                     THEN /\ DOMAIN gaps = DOMAIN before.knowledge_gaps \cup {KnowledgeGapKey}
                          /\ gaps[KnowledgeGapKey].text = correction.text
                          /\ gaps[KnowledgeGapKey].len =
                                IF correction.len > CorrectionLimit
                                    THEN CorrectionLimit ELSE correction.len
                          /\ \A k \in DOMAIN before.knowledge_gaps \ {KnowledgeGapKey} :
                                gaps[k] = before.knowledge_gaps[k]
                     ELSE gaps = before.knowledge_gaps
               /\ assessment.soft_skills_notes
                    = before.soft_skills_notes \o evasive \o deep
               /\ Len(evasive \o deep) = 2 => evasive # deep

C29_Witness ==
    /\ observer_call.called
    /\ ~observer_call.raised
    /\ observer_call.analysis.has_errors
    /\ observer_call.analysis.suggested_correction.len > CorrectionLimit
    /\ KnowledgeGapKey \in DOMAIN observer_call.before.knowledge_gaps
    /\ observer_call.before.knowledge_gaps[KnowledgeGapKey].len < CorrectionLimit
    /\ assessment.knowledge_gaps[KnowledgeGapKey].len = CorrectionLimit
    /\ Len(observer_call.before.soft_skills_notes) = 3
    /\ Len(assessment.soft_skills_notes) = 4

\* C30: analyze_answer calls the Observer and its aggregator exactly when
\* the pending question and the pending answer are both non-empty; with
\* either of them empty it adds no turn and leaves the Assessment as it
\* is; with both present and the evaluation completed it appends exactly
\* one turn holding that question and that answer and goes back to
\* coordinator_decision.
C30_EvaluationNeedsQuestionAndAnswer ==
    [][pc = "analyze_answer"
        => IF current_question \in {None, ""} \/ current_answer \in {None, ""}
              THEN /\ ~observer_call'.called
                   /\ observer_call'.n = observer_call.n
                   /\ llm_call' = llm_call
                   /\ assessment' = assessment
                   /\ log_data' = log_data
              ELSE /\ observer_call'.called
                   /\ observer_call'.n = observer_call.n + 1
                   /\ llm_call'.agent = "Observer"
                   /\ ~observer_call'.raised
                        => /\ Len(log_data'.turns) = Len(log_data.turns) + 1
                           /\ SubSeq(log_data'.turns, 1, Len(log_data.turns))
                                = log_data.turns
                           /\ log_data'.turns[Len(log_data'.turns)].agent_visible_message
                                = current_question
                           /\ log_data'.turns[Len(log_data'.turns)].user_message
                                = current_answer
                           /\ pc' = "coordinator_decision"]_vars

C30_Witness ==
    /\ prev = "analyze_answer"
    /\ current_answer = ""
    /\ ~observer_call.called
    /\ observer_call.n >= 1
    /\ Len(log_data.turns) >= 1
    /\ Len(questions_asked) > Len(log_data.turns)

\* Every item of the lists a session's state holds was put there by the
\* session itself.
OwnItemsOnly(view, s) ==
    /\ \A list \in {view.assessment.soft_skills_notes, view.assessment.knowledge_gaps,
                    view.questions_asked, view.messages, view.log_data.turns} :
          \A i \in 1..Len(list) : list[i].by = s
    /\ view.log_data.final_feedback.by \in {0, s}

\* C26: of two sessions in one process, on one InterviewWorkflow or on two,
\* one after the other or interleaved, with the same candidate name,
\* position and scenario number or not, no step of one session changes the
\* Assessment, the asked questions, the messages or the log the other
\* session's state holds, and a session's state holds nothing the other
\* session put there.
C26_SessionsAreIsolated ==
    [][process'.started
        => \A s \in Sessions :
            /\ (process.sessions[s].pc # "new" /\ process'.actor # s)
                  => SessionView(process', s) = SessionView(process, s)
            /\ process'.sessions[s].pc # "new"
                  => OwnItemsOnly(SessionView(process', s), s)]_vars

C26_Witness ==
    /\ process.started
    /\ process.sessions[2].workflow = process.sessions[1].workflow
    /\ thread_id(process.sessions[2]) = thread_id(process.sessions[1])
    /\ process.sessions[1].pc = "analyze_answer"
    /\ process.sessions[2].pc = "get_user_answer"
    /\ Len(SessionView(process, 1).log_data.turns) = 1
    /\ Len(SessionView(process, 2).log_data.turns) = 1
    /\ process.actor = 2

\* C31: generate_question appends exactly one question, as the last
\* element, to questions_asked, appends one interviewer message with it to
\* messages, makes it the pending question and empties the pending answer;
\* the Assessment, the turns of the log, the topic, the difficulty and the
\* termination flag stay as they are.
C31_AskingFrame ==
    [][pc = "generate_question"
        => /\ questions_asked' = Append(questions_asked, current_question')
           /\ messages' = Append(messages, [role |-> "interviewer",
                                            content |-> current_question'])
           /\ current_answer' \in {None, ""}
           /\ assessment' = assessment
           /\ log_data'.turns = log_data.turns
           /\ current_topic' = current_topic
           /\ difficulty_level' = difficulty_level
           /\ interview_complete' = interview_complete
           /\ pc' = "get_user_answer"]_vars

C31_Witness ==
    /\ pc = "get_user_answer"
    /\ prev = "generate_question"
    /\ Len(questions_asked) = 2
    /\ Len(log_data.turns) = 1
    /\ current_question = questions_asked[2]
    /\ current_answer = ""

\* C32: in the state start_interview leaves to the Coordinator the topic is
\* empty, the difficulty is DEFAULT_DIFFICULTY, the log has no turn, no
\* question has been asked, the scores of the Assessment are 0 and its
\* collections empty, no question and no answer is pending, and the
\* termination flag is false.
C32_StartDefaults ==
    prev = "start_interview"
        => /\ pc = "coordinator_decision"
           /\ current_topic = ""
           /\ difficulty_level = DEFAULT_DIFFICULTY
           /\ log_data.turns = <<>>
           /\ questions_asked = <<>>
           /\ messages = <<>>
           /\ assessment.technical_score = 0
           /\ assessment.communication_score = 0
           /\ assessment.confidence_score = 0
           /\ assessment.topics_covered = <<>>
           /\ assessment.confirmed_skills = <<>>
           /\ DOMAIN assessment.knowledge_gaps = {}
           /\ assessment.soft_skills_notes = <<>>
           /\ current_question \in {None, ""}
           /\ current_answer \in {None, ""}
           /\ interview_complete = FALSE

C32_Witness ==
    /\ prev = "start_interview"
    /\ pc = "coordinator_decision"
    /\ ENABLED coordinator_decision

\* C33: when the reasoning-service call of the Reporter fails, the feedback
\* is the neutral fallback: the hiring recommendation asks for a manual
\* review, the level is undetermined and the roadmap has exactly one
\* general item; on every path the roadmap has at most RoadmapLimit items.
C33_ReporterFallback ==
    final_feedback.kind # "none"
        => /\ Len(final_feedback.roadmap) <= RoadmapLimit
           /\ final_feedback.kind = "fallback"
                => /\ final_feedback.verdict.hiring_recommendation
                        = "Trebuetsya ruchnaya proverka"
                   /\ final_feedback.verdict.grade = "Ne opredelen"
                   /\ Len(final_feedback.roadmap) = 1
                   /\ final_feedback.roadmap[1].topic = ""

C33_Witness ==
    /\ final_feedback.kind = "fallback"
    /\ DOMAIN assessment.knowledge_gaps # {}
    /\ assessment.technical_score < 6 * ScoreScale
    /\ assessment.communication_score < 5 * ScoreScale
    /\ Len(final_feedback.roadmap) = 1

\* C34: every decision the Coordinator returns, from the reasoning service
\* or from the fallback, has an action among continue, change_topic and
\* end_interview; a parsed action that is missing or outside this set is
\* returned as continue.
C34_DecisionActionLegal ==
    (coord_call.called /\ ~coord_call.raised)
        => /\ coord_call.decision.action \in CoordinatorActions
           /\ (coord_call.response = "json"
                /\ coord_call.text[1].value.action \notin CoordinatorActions)
                 => coord_call.decision.action = "continue"
           /\ (coord_call.response = "json"
                /\ coord_call.text[1].value.action \in CoordinatorActions)
                 => coord_call.decision.action = coord_call.text[1].value.action

C34_Witness ==
    /\ coord_call.called
    /\ ~coord_call.raised
    /\ coord_call.response = "json"
    /\ coord_call.text[1].value.action = None
    /\ coord_call.decision.action = "continue"

\* C35: once interview_complete is set it is never cleared, and from then
\* on the Coordinator makes no call to the reasoning service, no question
\* is generated and nothing is appended to questions_asked.
C35_CompleteIsFinal ==
    [][interview_complete
        => /\ interview_complete'
           /\ questions_asked' = questions_asked
           /\ current_question' = current_question
           /\ pc' # "generate_question"
           /\ \A i \in 1..Len(messages') :
                 messages'[i].role = "interviewer" => i <= Len(messages)
           /\ pc = "coordinator_decision"
                => coord_call' = NoCall /\ llm_call' = llm_call
           /\ pc # "coordinator_decision"
                => coord_call' = coord_call
                   /\ (llm_call' = llm_call \/ llm_call'.agent # "Coordinator")]_vars

C35_Witness ==
    /\ interview_complete
    /\ stop_snapshot # NoSnapshot
    /\ prev = "coordinator_decision"
    /\ pc = "generate_feedback"
    /\ coord_call = NoCall
    /\ Len(questions_asked) = 2

\* C36: the log never holds more turns than questions were asked; a step
\* of analyze_answer adds at most one turn and no question, and adds no
\* turn when the answer is empty or the evaluation failed.
C36_TurnsWithinQuestions ==
    /\ [](Len(log_data.turns) <= Len(questions_asked))
    /\ [][pc = "analyze_answer"
            => /\ questions_asked' = questions_asked
               /\ \/ log_data'.turns = log_data.turns
                  \/ /\ Len(log_data'.turns) = Len(log_data.turns) + 1
                     /\ SubSeq(log_data'.turns, 1, Len(log_data.turns)) = log_data.turns
               /\ (Falsy(current_answer)
                   \/ (observer_call'.called /\ observer_call'.raised))
                    => log_data'.turns = log_data.turns]_vars

C36_Witness ==
    /\ prev = "analyze_answer"
    /\ Len(questions_asked) = 3
    /\ Len(log_data.turns) = 1
    /\ current_answer = ""
    /\ raised_from = "Observer"
    /\ ~observer_call.called

\* The answer entered after the k-th question.  generate_question appends
\* the question to messages and get_user_answer the line entered after it,
\* so the answer to question k is the message after the k-th interviewer
\* message; a stop keyword is not appended and is the pending answer.
AnswerTo(k) ==
    IF 2 * k <= Len(messages) THEN messages[2 * k].content ELSE current_answer

\* The i-th smallest member of a set of numbers
Nth(S, i) == CHOOSE k \in S : Cardinality({j \in S : j < k}) = i - 1

\* C37: every turn of the log pairs a question of questions_asked with the
\* answer entered after that question, and the turns come in the order in
\* which their questions were asked.
C37_TurnsPairQuestionAndAnswer ==
    /\ \A k \in 1..Len(questions_asked) :
          2 * k - 1 <= Len(messages)
          /\ messages[2 * k - 1] = Message("interviewer", questions_asked[k])
    /\ \E S \in SUBSET (1..Len(questions_asked)) :
          /\ Cardinality(S) = Len(log_data.turns)
          /\ \A i \in 1..Len(log_data.turns) :
                /\ log_data.turns[i].agent_visible_message = questions_asked[Nth(S, i)]
                /\ log_data.turns[i].user_message = AnswerTo(Nth(S, i))
                /\ log_data.turns[i].turn_id = i

C37_Witness ==
    /\ Len(questions_asked) = 3
    /\ Len(log_data.turns) = 2
    /\ messages[4].content = ""
    /\ log_data.turns[1].agent_visible_message = questions_asked[1]
    /\ log_data.turns[1].user_message = LongAnswer
    /\ log_data.turns[2].agent_visible_message = questions_asked[3]
    /\ log_data.turns[2].user_message = "STOP"

\* The session was stopped by the end of input
StoppedByEOF == stop_snapshot.taken /\ stop_snapshot.line = EOF

\* C38: the end of input on the answer source is handled as the stop
\* keyword is: the step that reads it sets interview_complete and goes on
\* to analyze_answer without raising, and from there the session only
\* moves along analyze_answer, coordinator_decision, generate_feedback,
\* end_interview and END, each of which has a step to take.
C38_EOFStopsTheSession ==
    /\ [](StoppedByEOF
            => /\ interview_complete
               /\ IsStopKeyword(current_answer)
               /\ raised_from # "input"
               /\ pc \in {"analyze_answer", "coordinator_decision",
                          "generate_feedback", "end_interview", END}
               /\ pc # END => ENABLED Next)
    /\ [][StoppedByEOF'
            => /\ pc = "get_user_answer"
                    => /\ pc' = "analyze_answer"
                       /\ messages' = messages
                       /\ stop_snapshot'.assessment = assessment
                       /\ stop_snapshot'.turns = log_data.turns
               /\ pc = "analyze_answer" => pc' = "coordinator_decision"
               /\ pc = "coordinator_decision"
                    => pc' = "generate_feedback" /\ coord_call' = NoCall
               /\ pc = "generate_feedback" => pc' = "end_interview"
               /\ pc = "end_interview" => pc' = END]_vars

C38_Witness ==
    /\ StoppedByEOF
    /\ pc = END
    /\ final_feedback # NoFeedback
    /\ Len(questions_asked) = 2
    /\ disk.interview_log # NoFile

\* An evaluation that flags an error and carries a correction
FlagsError(call) ==
    /\ call.called
    /\ ~call.raised
    /\ call.analysis.has_errors
    /\ "suggested_correction" \in DOMAIN call.analysis
    /\ call.analysis.suggested_correction.len > 0

\* C39: the knowledge-gap map of the Assessment never has a key other than
\* the one constant key, and an evaluation that flags an error leaves under
\* that key its own correction, cut at 200 characters, whatever was stored
\* before; the topic of the session is not read.
C39_OneKnowledgeGapKey ==
    /\ [](DOMAIN assessment.knowledge_gaps \subseteq {KnowledgeGapKey})
    /\ [][(observer_call'.n = observer_call.n + 1 /\ FlagsError(observer_call'))
            => /\ DOMAIN assessment'.knowledge_gaps = {KnowledgeGapKey}
               /\ assessment'.knowledge_gaps[KnowledgeGapKey] =
                      Slice(observer_call'.analysis.suggested_correction,
                            CorrectionLimit)]_vars

C39_Witness ==
    /\ FlagsError(observer_call)
    /\ DOMAIN observer_call.before.knowledge_gaps = {KnowledgeGapKey}
    /\ observer_call.before.knowledge_gaps # assessment.knowledge_gaps
    /\ DOMAIN assessment.knowledge_gaps = {KnowledgeGapKey}

====
